---------------------------- MODULE Spec2Model ----------------------------
(***************************************************************************)
(* A model of the RPG Scribe pipeline (Zartch/Rpg-Scriber): the            *)
(* incremental summarizer with its question store, the event bus and the   *)
(* OpenAI transcriber.  Every component runs on one cooperative asyncio    *)
(* scheduler, so an action is the code a coroutine runs between two        *)
(* awaits.  Each component has its own specification over the shared       *)
(* variables; the components a specification does not exercise stay in     *)
(* their constructed state.                                                *)
(***************************************************************************)
EXTENDS Integers, Sequences, FiniteSets, TLC

(***************************************************************************)
(* Bounds of the model and configuration values.                           *)
(***************************************************************************)
\* Transcription events delivered to the summarizer in one session.
MaxTrans == 3
\* Questions the LLM may raise in one session.
MaxQuestions == 1
\* Ticks of the wall clock.
MaxTime == 2
\* SummarizerConfig.max_pending_transcriptions as the coalescing test sets it.
MaxPending == 2
\* SummarizerConfig.update_interval_s, in clock ticks.
UpdateInterval == 1
\* SummarizerConfig.max_retries: LLM attempts per pass.
SumMaxRetries == 2

\* Handlers that may be registered on the bus.
MaxHandlers == 2
\* Events published on the bus.
MaxPublishes == 2
\* subscribe/unsubscribe calls made on the bus.
MaxRegOps == 2

\* Audio chunks handed to OpenAITranscriber.transcribe.
MaxChunks == 3
\* TranscriberConfig.max_concurrent_requests as the semaphore test sets it.
MaxConcurrent == 2
\* TranscriberConfig.max_retries as the transcriber tests set it.
SttMaxRetries == 2

\* ListenerConfig defaults in units of half a second: chunk_duration_s,
\* silence_threshold_s, short_silence_threshold_s, min_chunk_duration_s, and
\* the 5.0 s of should_emit's medium-buffer rule.
ChunkDuration == 20
SilenceThreshold == 3
ShortSilence == 1
MinChunkDuration == 1
MediumDuration == 10
\* Largest clock reading handed to should_emit.
MaxStamp == 6
\* Frames of half a second delivered to the listener, and ticks of its clock.
MaxFrames == 5
MaxLTime == 3

\* CircuitBreakerConfig: failure_threshold, recovery_timeout_s (in clock
\* ticks) and half_open_max_calls.
FailureThreshold == 2
RecoveryTimeout == 1
HalfOpenMax == 1
\* Calls made through the breaker, and ticks of its clock.
MaxCalls == 5
MaxCbTime == 3

\* Task 0 is the caller of finalize_session(); task t > 0 is the bus handler
\* _handle_transcription running for the t-th transcription.
FinTask == 0
TransTasks == 1..MaxTrans
Tasks == 0..MaxTrans
Questions == 1..MaxQuestions
\* Two users are enough for two answer modals open on one question.
Users == {"alice", "bob"}
\* Two event classes stand for the keys of EventBus._handlers.
Types == {"AudioChunkEvent", "TranscriptionEvent"}
Handlers == 1..MaxHandlers
Chunks == 1..MaxChunks
Callers == 1..MaxCalls
\* Two PCM payloads (equal or different chunks) and two texts the STT
\* service may answer; "none" stands for no payload, no entry, no text.
Pcm == {"pcmA", "pcmB"}
Texts == {"hola", "adios"}
\* Texts the STT service may answer that hold no word.
BlankTexts == {"", "   "}
\* The answers _handle_audio is run with: one with words, and the blank ones.
HandleTexts == {"hola"} \cup BlankTexts
\* The session and the speakers of the audio chunks.
Sessions == {"sess1"}
Speakers == {"u1", "u2"}
\* The keys of OpenAITranscriber._cache: hex digests of payloads.
Keys == {"md5A", "md5B"}

VARIABLES
    \* ---- summarizer (BaseSummarizer / ClaudeSummarizer fields) ----
    hasDb,              \* _database is not None
    pending,            \* _pending: sequence of transcription ids
    session_summary,    \* _session_summary: 0 is "", k the k-th LLM result
    last_update_time,   \* _last_update_time
    locked,             \* _update_lock._locked
    waiters,            \* _update_lock._waiters (FIFO)
    subscribed,         \* _handle_transcription registered on the bus
    now,                \* time.time()
    pc,                 \* where each coroutine is suspended
    entries,            \* local `entries` of _update_summary / the pending
                        \* text formatted by finalize_session
    ans,                \* local `answered` rows of _build_user_answers_block
    attempt,            \* loop variable of _call_api
    \* ---- questions table and the /scribe ask modals ----
    qstatus,            \* questions.status per id ("none": no such row)
    modal,              \* question_id of each user's open AnswerQuestionModal
    \* ---- observations (what the bus and the LLM have seen) ----
    arrived,            \* valid transcriptions delivered so far
    published,          \* update_type of each SummaryUpdateEvent, in order
    errors,             \* SystemStatus(error) events of the summarizer
    consumed,           \* transcription ids sent in a prompt that succeeded
    injected,           \* per question: passes whose prompt carried its answer
    started,            \* incremental passes that entered the critical section
    intervalElapsed     \* some arrival found update_interval_s elapsed

VARIABLES
    \* ---- event bus ----
    handlers,           \* EventBus._handlers: per type, the list of handlers
    raisers,            \* the handlers that always raise
    pubState,           \* "idle", or "gather" while publish awaits gather
    pubType,            \* type(event) of the publish in progress
    snapshot,           \* local `handlers` of publish
    hs,                 \* per launched handler: ready, susp, ok or exc
    publishes,          \* publish calls made so far
    regOps,             \* subscribe/unsubscribe calls made so far
    pubRaised,          \* some publish let an exception out
    delivered,          \* per handler: times it was invoked
    expected,           \* per handler: publishes of a type for which its
                        \* latest registry call was subscribe
    lastOp,             \* per (type, handler): the latest registry call
    lastCall            \* the latest registry call and what it found and did

busVars == <<handlers, raisers, pubState, pubType, snapshot, hs, publishes,
             regOps, pubRaised, delivered, expected, lastOp, lastCall>>

VARIABLES
    \* ---- OpenAI transcriber ----
    cache,              \* _cache: text per audio hash
    semValue,           \* _semaphore._value
    semWaiters,         \* _semaphore._waiters (FIFO)
    cpc,                \* where each transcribe() call is suspended
    cpcm,               \* event.audio_data of each call
    cattempt,           \* loop variable of _call_api_with_retry
    ctext,              \* text of the TranscriptionEvent returned
    remoteCalls,        \* per payload: requests sent to the STT service
    sttFailed           \* some request to the STT service failed

sttVars == <<cache, semValue, semWaiters, cpc, cpcm, cattempt, ctext,
             remoteCalls, sttFailed>>

VARIABLES
    \* ---- BaseTranscriber._handle_audio, one run per chunk ----
    transEvents,        \* per chunk: the TranscriptionEvents it published
    errEvents,          \* per chunk: SystemStatus(transcriber, error) events
    handlerRaised       \* some _handle_audio let an exception out

haVars == <<transEvents, errEvents, handlerRaised>>

VARIABLES
    \* ---- one call of UserAudioBuffer.should_emit ----
    seCfg,              \* self.config
    seDur,              \* duration_s of the buffer
    seLast,             \* _last_voice_time
    seNow,              \* the `now` argument
    seOut               \* "none" before the call, then "emit" or "hold"

emVars == <<seCfg, seDur, seLast, seNow, seOut>>

VARIABLES
    \* ---- DiscordListener and its UserAudioBuffers ----
    lnow,               \* time.time()
    connected,          \* _connected
    userBufs,           \* keys of _user_buffers in insertion order
    buf,                \* per speaker: _buffer as the ids of its frames
    startT,             \* per speaker: _start_time (0: None)
    lastV,              \* per speaker: _last_voice_time
    fpc,                \* _periodic_flush: "sleep", "pub" or "ended"
    fnow,               \* local `now` of _periodic_flush
    fq,                 \* speakers its for loop has still to visit
    fcancelled,         \* _flush_task.cancel() was called
    dpc,                \* disconnect: "idle", "join", "pub", "vc", "closed"
    dq,                 \* speakers its for loop has still to visit
    nframes,            \* frames delivered so far
    fed,                \* per speaker: the frames fed in, in order
    emitted,            \* per speaker: the AudioChunkEvents published
    lost                \* per speaker: what _user_buffers.clear() dropped

lsnVars == <<lnow, connected, userBufs, buf, startT, lastV, fpc, fnow, fq,
             fcancelled, dpc, dq, nframes, fed, emitted, lost>>

VARIABLES
    \* ---- CircuitBreaker ----
    cbState,            \* _state
    failure_count,      \* _failure_count
    last_failure_time,  \* _last_failure_time
    half_open_calls,    \* _half_open_calls
    cbNow,              \* time.time()
    kpc,                \* per call: new, run, ok, fail or rejected
    kadm,               \* per call: the state that admitted it
    invoked,            \* invocations of the wrapped operation
    streak,             \* failures completed since the last success
    cbLast              \* the latest step of a call: what it found and did

cbVars == <<cbState, failure_count, last_failure_time, half_open_calls, cbNow,
            kpc, kadm, invoked, streak, cbLast>>

VARIABLES
    \* ---- one call of retry_async ----
    max_attempts,       \* cfg.max_attempts
    on_retry,           \* an on_retry callback was passed
    rattempt,           \* the loop variable `attempt`
    last_exc,           \* last_exc ("none": None)
    rpc,                \* "call", "notify", "sleep" or "done"
    outcomes,           \* what each await of func gave, in order
    notified,           \* the (attempt, exc) pairs on_retry was awaited with
    sleeps,             \* the delay of each asyncio.sleep, in order
    ret                 \* how the call ended

rtVars == <<max_attempts, on_retry, rattempt, last_exc, rpc, outcomes,
            notified, sleeps, ret>>

VARIABLES
    \* ---- ReconnectionManager ----
    running,            \* _running
    monitor_task,       \* _monitor_task: "none" or "task"
    startPc,            \* start(): "new", "connect", "started" or "raised"
    mpc,                \* the monitor task: "none", "sleep", "connect",
                        \*   "backoff", "done" or "cancelled"
    mcancel,            \* cancel() was requested and not yet delivered
    mattempt,           \* loop variable of _attempt_reconnect
    isConnected,        \* what is_connected() answers
    spc,                \* per stop() call: "idle", "join", "disc", "done"
    connects,           \* invocations of connect
    disconnects,        \* invocations of disconnect
    drops               \* connection losses so far

rcVars == <<running, monitor_task, startPc, mpc, mcancel, mattempt,
            isConnected, spc, connects, disconnects, drops>>

\* The resilience primitives besides the circuit breaker.
kitVars == <<rtVars, rcVars>>

VARIABLES
    \* ---- TranscriptionEvents on the bus and their two handlers ----
    evOf,               \* per buffered transcription: the event it came from
    stored,             \* the events save_transcription was called with
    ignored,            \* events _handle_transcription returned on at once
    lastIn              \* the latest event and whether it touched the buffer

inVars == <<evOf, stored, ignored, lastIn>>

VARIABLES
    \* ---- finalize_session and the texts it assigns ----
    finResp,            \* the text _call_api returns to finalize_session
    sessText,           \* _session_summary as text
    campaign_summary,   \* _campaign_summary
    finRet              \* what finalize_session returned

finVars == <<finResp, sessText, campaign_summary, finRet>>

VARIABLES
    \* ---- start() and stop() of the transcriber and the summarizer ----
    lcStarted,          \* per component: start() was called
    lcSubs,             \* per component: EventBus._handlers of its event type
    lcState,            \* per component: _cache, or _pending
    lcPc,               \* per stop() call: "new", "pub" or "done"
    lcRaised,           \* some stop() let an exception out
    lcDirty,            \* per component: started or worked since its last stop()
    lastStop            \* the latest stop(): what it found and did

lcVars == <<lcStarted, lcSubs, lcState, lcPc, lcRaised, lcDirty, lastStop>>

VARIABLES
    \* ---- one call of _stereo_to_mono ----
    pcm_stereo,         \* the argument, a sequence of bytes
    mono_bytes,         \* the bytes returned
    monoPc              \* "idle", "done", or "raised" (struct.error)

monoVars == <<pcm_stereo, mono_bytes, monoPc>>

VARIABLES
    \* ---- the npcs table and the LLM's answer about NPCs ----
    extraction,         \* the NPC names the LLM gives when asked to extract
    npc_table,          \* names in the campaign's npcs rows before finalize
    save_npc_calls      \* the calls of Database.save_npc, in order

npcVars == <<extraction, npc_table, save_npc_calls>>

VARIABLES
    \* ---- the ends: OpenAITranscriber.stop and Application.on_session_end ----
    tstop,              \* "running", "stopping" (stop awaits), "stopped"
    session_status,     \* the status column of the session's row
    \* ---- an AudioChunkEvent on its way through the bus ----
    pipe,               \* per chunk: where publish, _handle_audio, the
                        \* publish of its TranscriptionEvent and that
                        \* publish's handlers are
    tsubs               \* the handlers registered for TranscriptionEvent

pipeVars == <<pipe, tsubs>>

tailVars == <<tstop, session_status, pipeVars>>

\* The state of the components modelled last.
lateVars == <<inVars, finVars, lcVars, monoVars, npcVars, tailVars>>

sumVars == <<hasDb, pending, session_summary, last_update_time, locked, waiters,
             subscribed, now, pc, entries, ans, attempt, qstatus, modal,
             arrived, published, errors, consumed, injected, started,
             intervalElapsed>>

\* The components outside the summarizer, the bus and the STT client.
restVars == <<haVars, emVars, lsnVars, cbVars, kitVars, lateVars>>

vars == <<sumVars, busVars, sttVars, restVars>>

\* What a step of one component leaves alone.
BusOnly == UNCHANGED <<sumVars, sttVars, restVars>>
SttOnly ==
    UNCHANGED <<sumVars, busVars, emVars, lsnVars, cbVars, kitVars, lateVars>>
HaOnly ==
    UNCHANGED <<sumVars, busVars, emVars, lsnVars, cbVars, kitVars, lateVars>>
SttAlone == UNCHANGED haVars

(***************************************************************************)
(* Helpers.                                                                *)
(***************************************************************************)
Range(s) == {s[i] : i \in 1..Len(s)}

Min(S) == CHOOSE x \in S : \A y \in S : x <= y

(***************************************************************************)
(* Summarizer: pure parts.                                                 *)
(***************************************************************************)
\* Mutant: a pass for every transcription, whatever the thresholds.
ShouldUpdateEager(p, t, last) == Len(p) > 0

\* BaseSummarizer._should_update
ShouldUpdate(p, t, last) ==
    /\ Len(p) > 0
    /\ \/ Len(p) >= MaxPending
       \/ t - last >= UpdateInterval

\* asyncio.Lock.acquire's fast path: free and nobody queued.
LockFree == ~locked /\ waiters = <<>>

\* `self._pending = entries + self._pending`
RestorePending(e, p) == e \o p

\* get_answered_unprocessed_questions: rows with status = 'answered'.
AnsweredUnprocessed == {q \in Questions : qstatus[q] = "answered"}

\* get_pending_questions: rows with status = 'pending'.
PendingQuestions == {q \in Questions : qstatus[q] = "pending"}

\* answer_question's UPDATE ... SET status = 'answered' WHERE id = ?
AnswerStatus(old) == "answered"

\* mark_questions_processed's UPDATE ... SET status = 'processed' WHERE id IN
MarkProcessed(qs, ids) ==
    [q \in Questions |-> IF q \in ids THEN "processed" ELSE qs[q]]

(***************************************************************************)
(* Summarizer: constructed and started state.                              *)
(***************************************************************************)
InitSum ==
    /\ hasDb \in BOOLEAN
    /\ pending = <<>>
    /\ session_summary = 0
    /\ last_update_time = 0
    /\ locked = FALSE
    /\ waiters = <<>>
    /\ subscribed = TRUE
    /\ now = 0
    /\ pc = [t \in Tasks |-> "new"]
    /\ entries = [t \in Tasks |-> <<>>]
    /\ ans = [t \in Tasks |-> {}]
    /\ attempt = [t \in Tasks |-> 0]
    /\ qstatus = [q \in Questions |-> "none"]
    /\ modal = [u \in Users |-> 0]
    /\ arrived = 0
    /\ published = <<>>
    /\ errors = 0
    /\ consumed = {}
    /\ injected = [q \in Questions |-> 0]
    /\ started = 0
    /\ intervalElapsed = FALSE

(***************************************************************************)
(* Summarizer: one action per stretch of code between two awaits.          *)
(***************************************************************************)
\* `entries = list(self._pending); self._pending.clear()` with the lock just
\* taken, then on to the first await: the storage call of
\* _build_user_answers_block, or without a database the LLM request.
EnterPass(t, p) ==
    /\ locked' = TRUE
    /\ entries' = [entries EXCEPT ![t] = p]
    /\ pending' = <<>>
    /\ pc' = [pc EXCEPT ![t] = IF hasDb THEN "fetch" ELSE "llm"]
    /\ started' = started + 1

\* _handle_transcription -> process_transcription for the next valid
\* transcription: append, _should_update, and _update_summary up to its
\* first suspension (the lock, or the first storage call).
Arrive(t) ==
    /\ subscribed
    /\ pc[t] = "new"
    /\ t = arrived + 1
    /\ arrived' = arrived + 1
    /\ LET p == Append(pending, t) IN
       IF ShouldUpdate(p, now, last_update_time)
       THEN IF LockFree
            THEN /\ EnterPass(t, p)
                 /\ UNCHANGED waiters
            ELSE /\ waiters' = Append(waiters, t)
                 /\ pending' = p
                 /\ pc' = [pc EXCEPT ![t] = "wait"]
                 /\ UNCHANGED <<locked, entries, started>>
       ELSE /\ pending' = p
            /\ pc' = [pc EXCEPT ![t] = "done"]
            /\ UNCHANGED <<locked, waiters, entries, started>>
    /\ intervalElapsed' =
          (intervalElapsed \/ now - last_update_time >= UpdateInterval)
    /\ UNCHANGED <<session_summary, last_update_time, subscribed, now, ans,
                   attempt, qstatus, modal, published, errors, consumed,
                   injected>>

\* The first waiter of the released lock resumes inside `async with`.
Wake(t) ==
    /\ pc[t] = "wait"
    /\ ~locked
    /\ waiters # <<>>
    /\ Head(waiters) = t
    /\ waiters' = Tail(waiters)
    /\ EnterPass(t, pending)
    /\ UNCHANGED <<session_summary, last_update_time, subscribed, now, ans,
                   attempt, qstatus, modal, arrived, published, errors,
                   consumed, injected, intervalElapsed>>

\* An exception that leaves _update_summary outside its try block: the lock
\* is released by `async with`, the local snapshot is gone, and
\* _handle_transcription publishes SystemStatus(error).
RaiseOutsideTry(t) ==
    /\ locked' = FALSE
    /\ entries' = [entries EXCEPT ![t] = <<>>]
    /\ ans' = [ans EXCEPT ![t] = {}]
    /\ errors' = errors + 1
    /\ pc' = [pc EXCEPT ![t] = "done"]
    /\ UNCHANGED pending

\* The except branch of _update_summary: put the snapshot back, then await
\* the publish of SystemStatus(error) with the lock still held.
RaiseInsideTry(t) ==
    /\ pending' = RestorePending(entries[t], pending)
    /\ entries' = [entries EXCEPT ![t] = <<>>]
    /\ ans' = [ans EXCEPT ![t] = {}]
    /\ errors' = errors + 1
    /\ pc' = [pc EXCEPT ![t] = "errpub"]
    /\ UNCHANGED locked

\* get_answered_unprocessed_questions returns or raises.
Fetch(t) ==
    /\ t # FinTask
    /\ pc[t] = "fetch"
    /\ \/ /\ AnsweredUnprocessed = {}
          /\ pc' = [pc EXCEPT ![t] = "llm"]
          /\ UNCHANGED <<pending, locked, entries, ans, errors>>
       \/ /\ AnsweredUnprocessed # {}
          /\ ans' = [ans EXCEPT ![t] = AnsweredUnprocessed]
          /\ pc' = [pc EXCEPT ![t] = "mark"]
          /\ UNCHANGED <<pending, locked, entries, errors>>
       \/ RaiseOutsideTry(t)
    /\ UNCHANGED <<session_summary, last_update_time, waiters, subscribed,
                   now, attempt, qstatus, modal, arrived, published,
                   consumed, injected, started, intervalElapsed>>

\* mark_questions_processed returns or raises; on return the answers block is
\* formatted into the user prompt and the first LLM request is issued.
Mark(t) ==
    /\ t # FinTask
    /\ pc[t] = "mark"
    /\ \/ /\ qstatus' = MarkProcessed(qstatus, ans[t])
          /\ injected' = [q \in Questions |->
                            IF q \in ans[t] THEN injected[q] + 1
                                            ELSE injected[q]]
          /\ pc' = [pc EXCEPT ![t] = "llm"]
          /\ UNCHANGED <<pending, locked, entries, ans, errors>>
       \/ /\ RaiseOutsideTry(t)
          /\ UNCHANGED <<qstatus, injected>>
    /\ UNCHANGED <<session_summary, last_update_time, waiters, subscribed,
                   now, attempt, modal, arrived, published, consumed,
                   started, intervalElapsed>>

\* The tail of the try block: assign the summary, stamp the time, publish.
Complete(t) ==
    /\ session_summary' = session_summary + 1
    /\ last_update_time' = now
    /\ published' = Append(published, "incremental")
    /\ consumed' = consumed \cup Range(entries[t])
    /\ entries' = [entries EXCEPT ![t] = <<>>]
    /\ ans' = [ans EXCEPT ![t] = {}]
    /\ pc' = [pc EXCEPT ![t] = "pub"]

\* messages.create returns for an incremental pass; the response carries
\* either no [PREGUNTA: ...] marker or one, which _save_questions stores
\* when there is a database.
LlmOk(t) ==
    /\ t # FinTask
    /\ pc[t] = "llm"
    /\ \/ /\ Complete(t)
          /\ UNCHANGED <<pending, errors>>
       \/ /\ hasDb
          /\ \E q \in Questions : qstatus[q] = "none"
          /\ pc' = [pc EXCEPT ![t] = "save"]
          /\ UNCHANGED <<pending, session_summary, last_update_time,
                         published, consumed, entries, ans, errors>>
    /\ UNCHANGED <<locked, waiters, subscribed, now, attempt, qstatus, modal,
                   arrived, injected, started, intervalElapsed>>

\* Mutant: the last retry is never made.
RetryAgainButOne(a) == a < SumMaxRetries - 2

\* `if attempt < self.config.max_retries - 1` of _call_api.
RetryAgain(a) == a < SumMaxRetries - 1

\* messages.create raises: back off, or give up after max_retries attempts.
LlmFail(t) ==
    /\ t # FinTask
    /\ pc[t] = "llm"
    /\ IF RetryAgain(attempt[t])
       THEN /\ attempt' = [attempt EXCEPT ![t] = attempt[t] + 1]
            /\ pc' = [pc EXCEPT ![t] = "backoff"]
            /\ UNCHANGED <<pending, entries, ans, errors>>
       ELSE /\ RaiseInsideTry(t)
            /\ UNCHANGED attempt
    /\ UNCHANGED <<session_summary, last_update_time, locked, waiters,
                   subscribed, now, qstatus, modal, arrived, published,
                   consumed, injected, started, intervalElapsed>>

\* asyncio.sleep(delay) of _call_api ends and the next request is issued.
Backoff(t) ==
    /\ pc[t] = "backoff"
    /\ pc' = [pc EXCEPT ![t] = "llm"]
    /\ UNCHANGED <<pending, session_summary, last_update_time, locked,
                   waiters, subscribed, now, entries, ans, attempt, qstatus,
                   modal, arrived, published, errors, consumed, injected,
                   started, intervalElapsed>>

\* _save_questions: save_question inserts the row as 'pending', or raises.
Save(t) ==
    /\ pc[t] = "save"
    /\ \/ /\ qstatus' = [qstatus EXCEPT
                           ![Min({q \in Questions : qstatus[q] = "none"})]
                               = "pending"]
          /\ Complete(t)
          /\ UNCHANGED <<pending, errors>>
       \/ /\ RaiseInsideTry(t)
          /\ UNCHANGED <<qstatus, session_summary, last_update_time,
                         published, consumed>>
    /\ UNCHANGED <<locked, waiters, subscribed, now, attempt, modal, arrived,
                   injected, started, intervalElapsed>>

\* Mutant: the publish returns but the lock stays taken.
ReleaseKeepsLock(t) ==
    /\ t # FinTask
    /\ pc[t] \in {"pub", "errpub"}
    /\ pc' = [pc EXCEPT ![t] = "done"]
    /\ attempt' = [attempt EXCEPT ![t] = 0]
    /\ UNCHANGED <<pending, session_summary, last_update_time, locked,
                   waiters, subscribed, now, entries, ans, qstatus, modal,
                   arrived, published, errors, consumed, injected, started,
                   intervalElapsed>>

\* The awaited bus publish returns and `async with` releases the lock.
Release(t) ==
    /\ t # FinTask
    /\ pc[t] \in {"pub", "errpub"}
    /\ locked' = FALSE
    /\ pc' = [pc EXCEPT ![t] = "done"]
    /\ attempt' = [attempt EXCEPT ![t] = 0]
    /\ UNCHANGED <<pending, session_summary, last_update_time, waiters,
                   subscribed, now, entries, ans, qstatus, modal, arrived,
                   published, errors, consumed, injected, started, intervalElapsed>>

(***************************************************************************)
(* finalize_session, called by Application.on_session_end.                 *)
(***************************************************************************)
\* Format pending, clear it, build the prompt and issue the LLM request.
FinStart ==
    /\ pc[FinTask] = "new"
    /\ entries' = [entries EXCEPT ![FinTask] = pending]
    /\ pending' = <<>>
    /\ pc' = [pc EXCEPT ![FinTask] = "llm"]
    /\ UNCHANGED <<session_summary, last_update_time, locked, waiters,
                   subscribed, now, ans, attempt, qstatus, modal, arrived,
                   published, errors, consumed, injected, started, intervalElapsed>>

\* The LLM answers: assign the summary and publish the final update.
FinLlmOk ==
    /\ pc[FinTask] = "llm"
    /\ session_summary' = session_summary + 1
    /\ published' = Append(published, "final")
    /\ consumed' = consumed \cup Range(entries[FinTask])
    /\ pc' = [pc EXCEPT ![FinTask] = "pub"]
    /\ UNCHANGED <<pending, last_update_time, locked, waiters, subscribed,
                   now, entries, ans, attempt, qstatus, modal, arrived,
                   errors, injected, started, intervalElapsed>>

\* The LLM call fails: back off, or raise RuntimeError to on_session_end.
FinLlmFail ==
    /\ pc[FinTask] = "llm"
    /\ IF attempt[FinTask] < SumMaxRetries - 1
       THEN /\ attempt' = [attempt EXCEPT ![FinTask] = attempt[FinTask] + 1]
            /\ pc' = [pc EXCEPT ![FinTask] = "backoff"]
       ELSE /\ pc' = [pc EXCEPT ![FinTask] = "failed"]
            /\ UNCHANGED attempt
    /\ UNCHANGED <<pending, session_summary, last_update_time, locked,
                   waiters, subscribed, now, entries, ans, qstatus, modal,
                   arrived, published, errors, consumed, injected, started,
                   intervalElapsed>>

\* finalize_session returns and on_session_end calls summarizer.stop(),
\* whose first statement unsubscribes the handler.
FinReturn ==
    /\ pc[FinTask] = "pub"
    /\ pc' = [pc EXCEPT ![FinTask] = "done"]
    /\ subscribed' = FALSE
    /\ UNCHANGED <<pending, session_summary, last_update_time, locked,
                   waiters, now, entries, ans, attempt, qstatus, modal,
                   arrived, published, errors, consumed, injected, started,
                   intervalElapsed>>

(***************************************************************************)
(* /scribe ask and the answer modal.                                       *)
(***************************************************************************)
\* scribe_ask: the modal is built for the first pending question.
Ask(u) ==
    /\ modal[u] = 0
    /\ PendingQuestions # {}
    /\ modal' = [modal EXCEPT ![u] = Min(PendingQuestions)]
    /\ UNCHANGED <<pending, session_summary, last_update_time, locked,
                   waiters, subscribed, now, pc, entries, ans, attempt,
                   qstatus, arrived, published, errors, consumed, injected,
                   started, intervalElapsed>>

\* AnswerQuestionModal.on_submit -> Database.answer_question.
Submit(u) ==
    /\ modal[u] # 0
    /\ qstatus' = [qstatus EXCEPT ![modal[u]] = AnswerStatus(qstatus[modal[u]])]
    /\ modal' = [modal EXCEPT ![u] = 0]
    /\ UNCHANGED <<pending, session_summary, last_update_time, locked,
                   waiters, subscribed, now, pc, entries, ans, attempt,
                   arrived, published, errors, consumed, injected, started,
                   intervalElapsed>>

\* The wall clock advances.
Tick ==
    /\ now < MaxTime
    /\ now' = now + 1
    /\ UNCHANGED <<pending, session_summary, last_update_time, locked,
                   waiters, subscribed, pc, entries, ans, attempt, qstatus,
                   modal, arrived, published, errors, consumed, injected,
                   started, intervalElapsed>>

\* Every step of the summarizer leaves its configuration alone.
SumOnly == UNCHANGED <<hasDb, busVars, sttVars, restVars>>

\* The summarizer as main.py builds it, without a database.
NextSum ==
    \/ \E t \in TransTasks : Arrive(t) /\ SumOnly
    \/ \E t \in TransTasks : Wake(t) /\ SumOnly
    \/ \E t \in TransTasks : LlmOk(t) /\ SumOnly
    \/ \E t \in TransTasks : LlmFail(t) /\ SumOnly
    \/ \E t \in Tasks : Backoff(t) /\ SumOnly
    \/ \E t \in TransTasks : Release(t) /\ SumOnly
    \/ FinStart /\ SumOnly
    \/ FinLlmOk /\ SumOnly
    \/ FinLlmFail /\ SumOnly
    \/ FinReturn /\ SumOnly
    \/ Tick /\ SumOnly

\* The summarizer with a database, the question store and its users.
NextDb ==
    \/ NextSum
    \/ \E t \in TransTasks : Fetch(t) /\ SumOnly
    \/ \E t \in TransTasks : Mark(t) /\ SumOnly
    \/ \E t \in TransTasks : Save(t) /\ SumOnly
    \/ \E u \in Users : Ask(u) /\ SumOnly
    \/ \E u \in Users : Submit(u) /\ SumOnly

\* The incremental passes with a database, the session never ending.
NextPass ==
    \/ \E t \in TransTasks : Arrive(t) /\ SumOnly
    \/ \E t \in TransTasks : Wake(t) /\ SumOnly
    \/ \E t \in TransTasks : Fetch(t) /\ SumOnly
    \/ \E t \in TransTasks : Mark(t) /\ SumOnly
    \/ \E t \in TransTasks : LlmOk(t) /\ SumOnly
    \/ \E t \in TransTasks : LlmFail(t) /\ SumOnly
    \/ \E t \in TransTasks : Backoff(t) /\ SumOnly
    \/ \E t \in TransTasks : Save(t) /\ SumOnly
    \/ \E t \in TransTasks : Release(t) /\ SumOnly
    \/ \E u \in Users : Ask(u) /\ SumOnly
    \/ \E u \in Users : Submit(u) /\ SumOnly
    \/ Tick /\ SumOnly

\* The end of on_session_end: finalize_session and stop() are behind it, or
\* finalize_session raised and the except branch logged; end_session marks
\* the session's row.
EndSession ==
    /\ pc[FinTask] \in {"done", "failed"}
    /\ session_status = "active"
    /\ session_status' = "completed"
    /\ UNCHANGED <<sumVars, busVars, sttVars, haVars, emVars, lsnVars, cbVars,
                   kitVars, inVars, finVars, lcVars, monoVars, npcVars, tstop,
                   pipeVars>>

\* A session from its start to the return of on_session_end.
NextEnd ==
    \/ NextSum
    \/ EndSession

(***************************************************************************)
(* Event bus.                                                              *)
(***************************************************************************)
NoDup(l) == \A i, j \in 1..Len(l) : i # j => l[i] # l[j]

Remove(l, h) ==
    LET i == Min({k \in 1..Len(l) : l[k] = h})
    IN  SubSeq(l, 1, i - 1) \o SubSeq(l, i + 1, Len(l))

\* Mutant: subscribe without the membership test.
SubscribeAlways(l, h) == Append(l, h)

\* EventBus.subscribe: append unless already in the list.
SubscribeList(l, h) == IF h \notin Range(l) THEN Append(l, h) ELSE l

\* EventBus.unsubscribe: list.remove when present.
UnsubscribeList(l, h) == IF h \in Range(l) THEN Remove(l, h) ELSE l

\* asyncio.gather starts its awaitables as peer tasks in list order: a
\* handler starts once the ones before it have run to their first await.
CanStart(i, st) == \A j \in 1..(i - 1) : st[j] # "ready"

\* Mutant: the handlers are launched and not joined.
GatherDoneAtOnce(st) == TRUE

\* gather(..., return_exceptions=True) completes when every task has.
GatherDone(st) == \A i \in DOMAIN st : st[i] \in {"ok", "exc"}

\* Mutant: gather without return_exceptions re-raises a handler's exception.
GatherPropagates(st) == \E i \in DOMAIN st : st[i] = "exc"

\* With return_exceptions=True the exceptions are results: nothing is raised.
GatherRaises(st) == FALSE

InitBus ==
    /\ handlers = [ty \in Types |-> <<>>]
    /\ raisers \in SUBSET Handlers
    /\ pubState = "idle"
    /\ pubType = "TranscriptionEvent"
    /\ snapshot = <<>>
    /\ hs = <<>>
    /\ publishes = 0
    /\ regOps = 0
    /\ pubRaised = FALSE
    /\ delivered = [h \in Handlers |-> 0]
    /\ expected = [h \in Handlers |-> 0]
    /\ lastOp = [ty \in Types |-> [h \in Handlers |-> "none"]]
    /\ lastCall = [op |-> "none", present |-> FALSE, same |-> TRUE]

\* The bus as constructed, for the specifications that do not exercise it.
IdleBus == InitBus /\ raisers = {}

\* subscribe(event_type, handler)
Subscribe(ty, h) ==
    /\ regOps < MaxRegOps
    /\ regOps' = regOps + 1
    /\ handlers' = [handlers EXCEPT ![ty] = SubscribeList(handlers[ty], h)]
    /\ lastOp' = [lastOp EXCEPT ![ty][h] = "sub"]
    /\ lastCall' = [op |-> "sub", present |-> h \in Range(handlers[ty]),
                    same |-> handlers' = handlers]
    /\ UNCHANGED <<raisers, pubState, pubType, snapshot, hs, publishes,
                   pubRaised, delivered, expected>>

\* unsubscribe(event_type, handler)
Unsubscribe(ty, h) ==
    /\ regOps < MaxRegOps
    /\ regOps' = regOps + 1
    /\ handlers' = [handlers EXCEPT ![ty] = UnsubscribeList(handlers[ty], h)]
    /\ lastOp' = [lastOp EXCEPT ![ty][h] = "unsub"]
    /\ lastCall' = [op |-> "unsub", present |-> h \in Range(handlers[ty]),
                    same |-> handlers' = handlers]
    /\ UNCHANGED <<raisers, pubState, pubType, snapshot, hs, publishes,
                   pubRaised, delivered, expected>>

\* Mutant: only the first registered handler is launched.
LaunchFirst(l) == IF l = <<>> THEN l ELSE <<l[1]>>
\* `handlers = list(self._handlers.get(event_type, []))` and the coroutines
\* `h(event) for h in handlers` of publish: one per handler registered at the
\* call, in registration order.
Launch(l) == l

\* publish(event) up to its await: copy the list, return at once when it is
\* empty, else hand one coroutine per handler to gather.
Publish(ty) ==
    /\ pubState = "idle"
    /\ publishes < MaxPublishes
    /\ publishes' = publishes + 1
    /\ pubType' = ty
    /\ snapshot' = Launch(handlers[ty])
    /\ hs' = [i \in 1..Len(Launch(handlers[ty])) |-> "ready"]
    /\ expected' = [h \in Handlers |->
                      IF lastOp[ty][h] = "sub" THEN expected[h] + 1
                                               ELSE expected[h]]
    /\ pubState' = IF Launch(handlers[ty]) = <<>> THEN "idle" ELSE "gather"
    /\ UNCHANGED <<handlers, raisers, regOps, pubRaised, delivered, lastOp,
                   lastCall>>

\* A launched handler runs to its first await, to its end, or raises.
HandlerStart(i) ==
    /\ pubState = "gather"
    /\ i \in DOMAIN hs
    /\ hs[i] = "ready"
    /\ CanStart(i, hs)
    /\ delivered' = [delivered EXCEPT ![snapshot[i]] = delivered[snapshot[i]] + 1]
    /\ \/ /\ snapshot[i] \in raisers
          /\ hs' = [hs EXCEPT ![i] = "exc"]
       \/ /\ snapshot[i] \notin raisers
          /\ hs' = [hs EXCEPT ![i] = "ok"]
       \/ hs' = [hs EXCEPT ![i] = "susp"]
    /\ UNCHANGED <<handlers, raisers, pubState, pubType, snapshot, publishes,
                   regOps, pubRaised, expected, lastOp, lastCall>>

\* A suspended handler resumes and ends, normally or by raising.
HandlerResume(i) ==
    /\ pubState = "gather"
    /\ i \in DOMAIN hs
    /\ hs[i] = "susp"
    /\ hs' = [hs EXCEPT ![i] = IF snapshot[i] \in raisers THEN "exc" ELSE "ok"]
    /\ UNCHANGED <<handlers, raisers, pubState, pubType, snapshot, publishes,
                   regOps, pubRaised, delivered, expected, lastOp, lastCall>>

\* gather completes; publish logs the exceptions among the results and returns.
PublishReturn ==
    /\ pubState = "gather"
    /\ GatherDone(hs)
    /\ pubRaised' = (pubRaised \/ GatherRaises(hs))
    /\ pubState' = "idle"
    /\ UNCHANGED <<handlers, raisers, pubType, snapshot, hs, publishes,
                   regOps, delivered, expected, lastOp, lastCall>>

NextBus ==
    \/ \E ty \in Types, h \in Handlers : Subscribe(ty, h) /\ BusOnly
    \/ \E ty \in Types, h \in Handlers : Unsubscribe(ty, h) /\ BusOnly
    \/ \E ty \in Types : Publish(ty) /\ BusOnly
    \/ \E i \in 1..MaxHandlers : HandlerStart(i) /\ BusOnly
    \/ \E i \in 1..MaxHandlers : HandlerResume(i) /\ BusOnly
    \/ PublishReturn /\ BusOnly

(***************************************************************************)
(* OpenAI transcriber.                                                     *)
(***************************************************************************)
\* _audio_hash: the MD5 hex digest of the payload; equal payloads give equal
\* keys and the two payloads of the model do not collide.
AudioHash(p) == IF p = "pcmA" THEN "md5A" ELSE "md5B"

\* Mutant: acquire never waits.
SemAlwaysFree == TRUE

\* asyncio.Semaphore.acquire's fast path: a slot is free and nobody queued.
SemFree == semValue > 0 /\ semWaiters = <<>>

InitStt ==
    /\ cache = [k \in Keys |-> "none"]
    /\ semValue = MaxConcurrent
    /\ semWaiters = <<>>
    /\ cpc = [c \in Chunks |-> "new"]
    /\ cpcm = [c \in Chunks |-> "none"]
    /\ cattempt = [c \in Chunks |-> 0]
    /\ ctext = [c \in Chunks |-> "none"]
    /\ remoteCalls = [k \in Pcm |-> 0]
    /\ sttFailed = FALSE

\* `async with self._semaphore` followed by the request of _call_api: take a
\* slot and send the request, or queue behind the semaphore.
EnterCall(c, p) ==
    IF SemFree
    THEN /\ semValue' = semValue - 1
         /\ remoteCalls' = [remoteCalls EXCEPT ![p] = remoteCalls[p] + 1]
         /\ cpc' = [cpc EXCEPT ![c] = "call"]
         /\ UNCHANGED semWaiters
    ELSE /\ semWaiters' = Append(semWaiters, c)
         /\ cpc' = [cpc EXCEPT ![c] = "semwait"]
         /\ UNCHANGED <<semValue, remoteCalls>>

\* transcribe(event) up to its first await: answer from the cache, or wrap
\* the PCM and enter _call_api_with_retry.
Transcribe(c, p) ==
    /\ cpc[c] = "new"
    /\ \A d \in Chunks : d < c => cpc[d] # "new"
    /\ cpcm' = [cpcm EXCEPT ![c] = p]
    /\ IF cache[AudioHash(p)] # "none"
       THEN /\ ctext' = [ctext EXCEPT ![c] = cache[AudioHash(p)]]
            /\ cpc' = [cpc EXCEPT ![c] = "done"]
            /\ UNCHANGED <<semValue, semWaiters, remoteCalls>>
       ELSE /\ EnterCall(c, p)
            /\ UNCHANGED ctext
    /\ UNCHANGED <<cache, cattempt, sttFailed>>

\* The first waiter of the semaphore gets a freed slot and sends its request.
SemWake(c) ==
    /\ cpc[c] = "semwait"
    /\ semWaiters # <<>>
    /\ Head(semWaiters) = c
    /\ semValue > 0
    /\ semValue' = semValue - 1
    /\ semWaiters' = Tail(semWaiters)
    /\ remoteCalls' = [remoteCalls EXCEPT ![cpcm[c]] = remoteCalls[cpcm[c]] + 1]
    /\ cpc' = [cpc EXCEPT ![c] = "call"]
    /\ UNCHANGED <<cache, cpcm, cattempt, ctext, sttFailed>>

\* The request returns a text: the slot is released, the text is cached and
\* transcribe returns the TranscriptionEvent.
CallOk(c, txt) ==
    /\ cpc[c] = "call"
    /\ semValue' = semValue + 1
    /\ cache' = [cache EXCEPT ![AudioHash(cpcm[c])] = txt]
    /\ ctext' = [ctext EXCEPT ![c] = txt]
    /\ cpc' = [cpc EXCEPT ![c] = "done"]
    /\ UNCHANGED <<semWaiters, cpcm, cattempt, remoteCalls, sttFailed>>

\* Mutant: one retry more than configured.
SttRetryOnceMore(a) == a <= SttMaxRetries

\* `if attempt < self.config.max_retries` of _call_api_with_retry.
SttRetryAgain(a) == a < SttMaxRetries

\* The request raises: the slot is released; sleep before the next attempt,
\* or raise RuntimeError after max_retries + 1 attempts.
CallFail(c) ==
    /\ cpc[c] = "call"
    /\ semValue' = semValue + 1
    /\ sttFailed' = TRUE
    /\ IF SttRetryAgain(cattempt[c])
       THEN /\ cattempt' = [cattempt EXCEPT ![c] = cattempt[c] + 1]
            /\ cpc' = [cpc EXCEPT ![c] = "sleep"]
       ELSE /\ cpc' = [cpc EXCEPT ![c] = "failed"]
            /\ UNCHANGED cattempt
    /\ UNCHANGED <<cache, semWaiters, cpcm, ctext, remoteCalls>>

\* asyncio.sleep(delay) ends and the next attempt asks for a slot.
Retry(c) ==
    /\ cpc[c] = "sleep"
    /\ EnterCall(c, cpcm[c])
    /\ UNCHANGED <<cache, cpcm, cattempt, ctext, sttFailed>>

\* OpenAITranscriber.transcribe called on its own.
NextStt ==
    \/ \E c \in Chunks, p \in Pcm : Transcribe(c, p) /\ SttOnly /\ SttAlone
    \/ \E c \in Chunks : SemWake(c) /\ SttOnly /\ SttAlone
    \/ \E c \in Chunks, txt \in Texts : CallOk(c, txt) /\ SttOnly /\ SttAlone
    \/ \E c \in Chunks : CallFail(c) /\ SttOnly /\ SttAlone
    \/ \E c \in Chunks : Retry(c) /\ SttOnly /\ SttAlone

(***************************************************************************)
(* BaseTranscriber._handle_audio around transcribe.                        *)
(***************************************************************************)
\* The AudioChunkEvent of the c-th chunk: speakers alternate, timestamps grow.
ChunkEvent(c) ==
    [session_id |-> "sess1",
     speaker_id |-> IF c % 2 = 1 THEN "u1" ELSE "u2",
     timestamp |-> c]

\* The TranscriptionEvent transcribe builds from the chunk and the text.
MakeTranscription(ev, txt) ==
    [session_id |-> ev.session_id,
     speaker_id |-> ev.speaker_id,
     text |-> txt,
     timestamp |-> ev.timestamp,
     is_partial |-> FALSE]

\* Mutant: the text is taken as it comes.
StripNothing(txt) == txt

\* str.strip(): leading and trailing whitespace removed.
Strip(txt) == IF txt = "   " THEN "" ELSE txt

\* EventBus.publish hands every handler exception back as a result.
PublishRaises == GatherRaises(<<>>)

InitHa ==
    /\ transEvents = [c \in Chunks |-> <<>>]
    /\ errEvents = [c \in Chunks |-> 0]
    /\ handlerRaised = FALSE

\* The except branch of _handle_audio: publish SystemStatus(error).
HandleExcept(c) ==
    /\ errEvents' = [errEvents EXCEPT ![c] = errEvents[c] + 1]
    /\ handlerRaised' = (handlerRaised \/ PublishRaises)

\* transcribe returned: publish the event when its text is not blank.
HandleResult(c, txt) ==
    IF Strip(txt) # ""
    THEN /\ transEvents' = [transEvents EXCEPT ![c] =
               Append(transEvents[c], MakeTranscription(ChunkEvent(c), txt))]
         /\ IF PublishRaises
            THEN HandleExcept(c)
            ELSE UNCHANGED <<errEvents, handlerRaised>>
    ELSE UNCHANGED <<transEvents, errEvents, handlerRaised>>

\* transcribe raised after its last attempt.
HandleError(c) ==
    /\ HandleExcept(c)
    /\ UNCHANGED transEvents

\* What _handle_audio does with the step transcribe has just made: nothing
\* while transcribe is suspended, else the try or the except branch.
HandleStep(c) ==
    IF cpc'[c] = "done" THEN HandleResult(c, ctext'[c])
    ELSE IF cpc'[c] = "failed" THEN HandleError(c)
    ELSE UNCHANGED haVars

\* The transcriber behind its bus handler; the service may answer blanks.
NextHandle ==
    \/ \E c \in Chunks, p \in Pcm : Transcribe(c, p) /\ HandleStep(c) /\ HaOnly
    \/ \E c \in Chunks : SemWake(c) /\ HandleStep(c) /\ HaOnly
    \/ \E c \in Chunks, txt \in HandleTexts :
          CallOk(c, txt) /\ HandleStep(c) /\ HaOnly
    \/ \E c \in Chunks : CallFail(c) /\ HandleStep(c) /\ HaOnly
    \/ \E c \in Chunks : Retry(c) /\ HandleStep(c) /\ HaOnly

(***************************************************************************)
(* OpenAITranscriber.stop while chunks are being transcribed.              *)
(***************************************************************************)
\* What a step of the transcriber or of its stop() leaves alone.
StopOnly ==
    UNCHANGED <<sumVars, busVars, emVars, lsnVars, cbVars, kitVars, inVars,
                finVars, lcVars, monoVars, npcVars, session_status, pipeVars>>

\* stop() up to its await: the cache is cleared and _handle_audio is
\* unsubscribed; the publish of SystemStatus(idle) is awaited.
StopBegin ==
    /\ tstop = "running"
    /\ cache' = [k \in Keys |-> "none"]
    /\ tstop' = "stopping"
    /\ UNCHANGED <<semValue, semWaiters, cpc, cpcm, cattempt, ctext,
                   remoteCalls, sttFailed, haVars>>

\* The publish returns and stop() returns.
StopReturn ==
    /\ tstop = "stopping"
    /\ tstop' = "stopped"
    /\ UNCHANGED <<sttVars, haVars>>

\* The bus hands a chunk to _handle_audio while it is subscribed; the calls
\* already suspended go on whatever stop() did.
NextStop ==
    \/ \E c \in Chunks, p \in Pcm :
          /\ tstop = "running"
          /\ Transcribe(c, p) /\ HandleStep(c) /\ StopOnly /\ UNCHANGED tstop
    \/ \E c \in Chunks : SemWake(c) /\ HandleStep(c) /\ StopOnly /\ UNCHANGED tstop
    \/ \E c \in Chunks, txt \in HandleTexts :
          CallOk(c, txt) /\ HandleStep(c) /\ StopOnly /\ UNCHANGED tstop
    \/ \E c \in Chunks : CallFail(c) /\ HandleStep(c) /\ StopOnly /\ UNCHANGED tstop
    \/ \E c \in Chunks : Retry(c) /\ HandleStep(c) /\ StopOnly /\ UNCHANGED tstop
    \/ StopBegin /\ StopOnly
    \/ StopReturn /\ StopOnly

(***************************************************************************)
(* From publish(AudioChunkEvent) to the handlers of the TranscriptionEvent. *)
(***************************************************************************)
\* AudioChunkEvents published, possibly while an earlier one is under way.
MaxPipes == 2

Pipes == 1..MaxPipes

\* No chunk published yet; Application.run has subscribed
\* _persist_transcription and the summarizer's start() its handler.
InitPipe ==
    /\ pipe = [c \in Pipes |->
                 [outer |-> "idle", ha |-> "none", text |-> "none",
                  inner |-> "none", snap |-> <<>>, subs |-> <<>>,
                  pass |-> "none"]]
    /\ tsubs = <<"persist", "sum">>

\* The summarizer's lock is held by the pass of some chunk.
PassRunning == \E c \in Pipes : pipe[c].pass = "running"

\* One coroutine handed to gather by publish(AudioChunkEvent): the state of
\* _handle_audio as gather sees it.
AudioHandlers(c) ==
    [i \in {1} |-> IF pipe[c].ha = "done" THEN "ok" ELSE "susp"]

\* publish(AudioChunkEvent) up to its await: gather is handed _handle_audio.
PlPublish(c) ==
    /\ pipe[c].outer = "idle"
    /\ \A d \in Pipes : d < c => pipe[d].outer # "idle"
    /\ pipe' = [pipe EXCEPT ![c].outer = "gather", ![c].ha = "ready"]
    /\ UNCHANGED tsubs

\* _handle_audio starts and awaits transcribe.
PlHandleStart(c) ==
    /\ pipe[c].ha = "ready"
    /\ pipe' = [pipe EXCEPT ![c].ha = "transcribe"]
    /\ UNCHANGED tsubs

\* transcribe returns: a blank text ends the handler; else the event is
\* published, which returns at once when nobody is subscribed and else
\* hands one coroutine per subscriber to gather.
PlTranscribed(c, txt) ==
    /\ pipe[c].ha = "transcribe"
    /\ IF Strip(txt) = ""
       THEN pipe' = [pipe EXCEPT ![c].ha = "done", ![c].text = txt]
       ELSE IF Launch(tsubs) = <<>>
       THEN pipe' = [pipe EXCEPT ![c].ha = "done", ![c].text = txt,
                                 ![c].inner = "returned"]
       ELSE pipe' = [pipe EXCEPT
                       ![c].ha = "publish", ![c].text = txt,
                       ![c].inner = "gather",
                       ![c].snap = Launch(tsubs),
                       ![c].subs = [i \in 1..Len(Launch(tsubs)) |-> "ready"]]
    /\ UNCHANGED tsubs

\* transcribe raises: the except branch publishes SystemStatus(error).
PlTranscribeFails(c) ==
    /\ pipe[c].ha = "transcribe"
    /\ pipe' = [pipe EXCEPT ![c].ha = "errpub"]
    /\ UNCHANGED tsubs

\* The publish of the error status returns and _handle_audio ends.
PlErrPublished(c) ==
    /\ pipe[c].ha = "errpub"
    /\ pipe' = [pipe EXCEPT ![c].ha = "done"]
    /\ UNCHANGED tsubs

\* A handler of the TranscriptionEvent starts. _handle_transcription buffers
\* the entry and returns, or enters _update_summary: it takes the lock and
\* awaits the LLM, or waits for the lock. _persist_transcription returns on a
\* partial event, or awaits save_transcription.
PlSubStart(c, i, upd) ==
    /\ pipe[c].inner = "gather"
    /\ i \in DOMAIN pipe[c].subs
    /\ pipe[c].subs[i] = "ready"
    /\ CanStart(i, pipe[c].subs)
    /\ IF pipe[c].snap[i] = "sum"
       THEN IF ~upd
            THEN pipe' = [pipe EXCEPT ![c].subs[i] = "ok"]
            ELSE IF PassRunning
            THEN pipe' = [pipe EXCEPT ![c].subs[i] = "lockwait"]
            ELSE pipe' = [pipe EXCEPT ![c].subs[i] = "susp",
                                      ![c].pass = "running"]
       ELSE \E st \in {"ok", "susp"} :
               /\ upd
               /\ pipe' = [pipe EXCEPT ![c].subs[i] = st]
    /\ UNCHANGED tsubs

\* The lock is released to the waiting handler, whose pass begins.
PlLockWake(c, i) ==
    /\ i \in DOMAIN pipe[c].subs
    /\ pipe[c].subs[i] = "lockwait"
    /\ ~PassRunning
    /\ pipe' = [pipe EXCEPT ![c].subs[i] = "susp", ![c].pass = "running"]
    /\ UNCHANGED tsubs

\* The pass ends, with its SummaryUpdate published or its failure handled
\* inside _update_summary; the lock is released and the handler returns.
PlPassEnds(c, i, ok) ==
    /\ i \in DOMAIN pipe[c].subs
    /\ pipe[c].snap[i] = "sum"
    /\ pipe[c].subs[i] = "susp"
    /\ pipe[c].pass = "running"
    /\ pipe' = [pipe EXCEPT ![c].subs[i] = "ok",
                            ![c].pass = IF ok THEN "completed" ELSE "failed"]
    /\ UNCHANGED tsubs

\* save_transcription returns or raises; _persist_transcription logs what
\* it raises and returns.
PlSubResume(c, i) ==
    /\ i \in DOMAIN pipe[c].subs
    /\ pipe[c].snap[i] # "sum"
    /\ pipe[c].subs[i] = "susp"
    /\ pipe' = [pipe EXCEPT ![c].subs[i] = "ok"]
    /\ UNCHANGED tsubs

\* gather of publish(TranscriptionEvent) completes and publish returns.
PlInnerReturn(c) ==
    /\ pipe[c].inner = "gather"
    /\ GatherDone(pipe[c].subs)
    /\ pipe' = [pipe EXCEPT ![c].inner = "returned"]
    /\ UNCHANGED tsubs

\* Mutant: the publish is started and not awaited.
PublishAwaitedNot(in) == TRUE

\* `await self.event_bus.publish(result)` of _handle_audio: the handler goes
\* on when the publish has returned.
PublishAwaited(in) == in = "returned"

\* _handle_audio ends after the publish of its TranscriptionEvent.
PlHandleReturn(c) ==
    /\ pipe[c].ha = "publish"
    /\ PublishAwaited(pipe[c].inner)
    /\ pipe' = [pipe EXCEPT ![c].ha = "done"]
    /\ UNCHANGED tsubs

\* gather of publish(AudioChunkEvent) completes and publish returns.
PlOuterReturn(c) ==
    /\ pipe[c].outer = "gather"
    /\ GatherDone(AudioHandlers(c))
    /\ pipe' = [pipe EXCEPT ![c].outer = "returned"]
    /\ UNCHANGED tsubs

\* The summarizer's stop(): its handler is unsubscribed.
PlUnsubscribe ==
    /\ "sum" \in Range(tsubs)
    /\ tsubs' = UnsubscribeList(tsubs, "sum")
    /\ UNCHANGED pipe

PipeOnly ==
    UNCHANGED <<sumVars, busVars, sttVars, haVars, emVars, lsnVars, cbVars,
                kitVars, inVars, finVars, lcVars, monoVars, npcVars, tstop,
                session_status>>

NextPipe ==
    \/ \E c \in Pipes : PlPublish(c) /\ PipeOnly
    \/ \E c \in Pipes : PlHandleStart(c) /\ PipeOnly
    \/ \E c \in Pipes, txt \in HandleTexts : PlTranscribed(c, txt) /\ PipeOnly
    \/ \E c \in Pipes : PlTranscribeFails(c) /\ PipeOnly
    \/ \E c \in Pipes : PlErrPublished(c) /\ PipeOnly
    \/ \E c \in Pipes : \E i \in DOMAIN pipe[c].subs, upd \in BOOLEAN :
          PlSubStart(c, i, upd) /\ PipeOnly
    \/ \E c \in Pipes : \E i \in DOMAIN pipe[c].subs :
          PlLockWake(c, i) /\ PipeOnly
    \/ \E c \in Pipes : \E i \in DOMAIN pipe[c].subs, ok \in BOOLEAN :
          PlPassEnds(c, i, ok) /\ PipeOnly
    \/ \E c \in Pipes : \E i \in DOMAIN pipe[c].subs :
          PlSubResume(c, i) /\ PipeOnly
    \/ \E c \in Pipes : PlInnerReturn(c) /\ PipeOnly
    \/ \E c \in Pipes : PlHandleReturn(c) /\ PipeOnly
    \/ \E c \in Pipes : PlOuterReturn(c) /\ PipeOnly
    \/ PlUnsubscribe /\ PipeOnly

(***************************************************************************)
(* UserAudioBuffer.should_emit.                                            *)
(***************************************************************************)
\* The default ListenerConfig.
DefaultCfg ==
    [chunk |-> ChunkDuration, silence |-> SilenceThreshold,
     short |-> ShortSilence, min |-> MinChunkDuration]

\* Buffer durations around every threshold of the default configuration.
DurSamples ==
    {0, MinChunkDuration, MinChunkDuration + 1, MediumDuration - 1,
     MediumDuration, ChunkDuration - 1, ChunkDuration, ChunkDuration + 1}

\* `now - self._last_voice_time if self._last_voice_time else 0.0`
SilenceOf(last, t) == IF last # 0 THEN t - last ELSE 0

\* should_emit once `now` is settled.
ShouldEmit(cfg, dur, last, t) ==
    IF dur < cfg.min THEN FALSE
    ELSE IF dur >= cfg.chunk THEN TRUE
    ELSE IF SilenceOf(last, t) >= cfg.silence THEN TRUE
    ELSE IF dur >= MediumDuration /\ SilenceOf(last, t) >= cfg.short THEN TRUE
    ELSE FALSE

\* No call of should_emit is under way.
IdleEmit ==
    /\ seCfg = DefaultCfg
    /\ seDur = 0
    /\ seLast = 0
    /\ seNow = 0
    /\ seOut = "none"

\* A buffer state and an injected clock reading.
InitEmit ==
    /\ seCfg = DefaultCfg
    /\ seDur \in DurSamples
    /\ seLast \in 0..MaxStamp
    /\ seNow \in 0..MaxStamp
    /\ seOut = "none"

\* should_emit(now): `now = now or time.time()`, then the rules.
CallShouldEmit ==
    /\ seOut = "none"
    /\ \E wall \in 1..MaxStamp :
          seOut' = IF ShouldEmit(seCfg, seDur, seLast,
                                 IF seNow # 0 THEN seNow ELSE wall)
                   THEN "emit" ELSE "hold"
    /\ UNCHANGED <<seCfg, seDur, seLast, seNow>>

NextEmit ==
    /\ CallShouldEmit
    /\ UNCHANGED <<sumVars, busVars, sttVars, haVars, lsnVars, cbVars,
                   kitVars, lateVars>>

(***************************************************************************)
(* DiscordListener: frames, the periodic flush and disconnect.             *)
(***************************************************************************)
\* ListenerConfig(chunk_duration_s=1.5, silence_threshold_s=1.0,
\* short_silence_threshold_s=0.5, min_chunk_duration_s=1.0), in half seconds.
LsnCfg == [chunk |-> 3, silence |-> 2, short |-> 1, min |-> 2]

\* duration_s: every frame of the model carries half a second of audio.
Dur(b) == Len(b)

\* Mutant: flush returns the duration where the start time belongs.
FlushStartMixed(st, d, t) == d

\* `start = self._start_time or time.time()`
FlushStart(st, d, t) == IF st # 0 THEN st ELSE t

\* The AudioChunkEvent _emit_chunk builds from flush().
ChunkOf(sp) ==
    [audio |-> buf[sp], ts |-> FlushStart(startT[sp], Dur(buf[sp]), lnow)]

\* The position of the first speaker of the list q that is in S (0: none
\* is).
FirstIdx(q, S) ==
    IF \E i \in 1..Len(q) : q[i] \in S
    THEN Min({i \in 1..Len(q) : q[i] \in S})
    ELSE 0

\* _periodic_flush's test followed by _emit_chunk's own.
EmitsAt(sp, t) ==
    /\ ShouldEmit(LsnCfg, Dur(buf[sp]), lastV[sp], t)
    /\ Dur(buf[sp]) >= LsnCfg.min

\* _emit_chunk's test alone, as disconnect calls it.
EmitsAtDisconnect(sp) == Dur(buf[sp]) >= LsnCfg.min

\* The audio of a list of chunks, end to end.
RECURSIVE Concat(_)
Concat(cs) == IF cs = <<>> THEN <<>> ELSE Head(cs).audio \o Concat(Tail(cs))

\* A listener connected to a voice channel, its flush task asleep.
InitLsn ==
    /\ lnow = 1
    /\ connected = TRUE
    /\ userBufs = <<>>
    /\ buf = [sp \in Speakers |-> <<>>]
    /\ startT = [sp \in Speakers |-> 0]
    /\ lastV = [sp \in Speakers |-> 0]
    /\ fpc = "sleep"
    /\ fnow = 0
    /\ fq = <<>>
    /\ fcancelled = FALSE
    /\ dpc = "idle"
    /\ dq = <<>>
    /\ nframes = 0
    /\ fed = [sp \in Speakers |-> <<>>]
    /\ emitted = [sp \in Speakers |-> <<>>]
    /\ lost = [sp \in Speakers |-> <<>>]

\* audio_callback -> add_audio: the buffer is created on the first frame; the
\* VAD, when there is one, may class the frame as non-speech.
Frame(sp, speech) ==
    /\ dpc \in {"idle", "join", "pub"}
    /\ nframes < MaxFrames
    /\ nframes' = nframes + 1
    /\ userBufs' = IF sp \in Range(userBufs) THEN userBufs
                                             ELSE Append(userBufs, sp)
    /\ startT' = [startT EXCEPT ![sp] = IF startT[sp] = 0 THEN lnow ELSE @]
    /\ buf' = [buf EXCEPT ![sp] = Append(@, nframes + 1)]
    /\ fed' = [fed EXCEPT ![sp] = Append(@, nframes + 1)]
    /\ lastV' = [lastV EXCEPT ![sp] = IF speech THEN lnow ELSE @]
    /\ UNCHANGED <<lnow, connected, fpc, fnow, fq, fcancelled, dpc, dq,
                   emitted, lost>>

\* flush() and the construction of the event, up to the await of publish.
Emit(sp) ==
    /\ emitted' = [emitted EXCEPT ![sp] = Append(@, ChunkOf(sp))]
    /\ buf' = [buf EXCEPT ![sp] = <<>>]
    /\ startT' = [startT EXCEPT ![sp] = 0]

\* The for loop of _periodic_flush over q with the clock reading t, up to
\* the publish of the first chunk or back to the sleep.
FlushLoop(q, t) ==
    LET i == FirstIdx(q, {sp \in Speakers : EmitsAt(sp, t)}) IN
    IF i = 0
    THEN /\ fpc' = "sleep"
         /\ fq' = <<>>
         /\ UNCHANGED <<emitted, buf, startT>>
    ELSE /\ Emit(q[i])
         /\ fpc' = "pub"
         /\ fq' = SubSeq(q, i + 1, Len(q))

\* asyncio.sleep(0.25) ends: read the clock and visit the buffers.
FlushWake ==
    /\ fpc = "sleep"
    /\ ~fcancelled
    /\ fnow' = lnow
    /\ FlushLoop(userBufs, lnow)
    /\ UNCHANGED <<lnow, connected, userBufs, lastV, fcancelled, dpc, dq,
                   nframes, fed, lost>>

\* The publish awaited by _emit_chunk returns: on with the for loop.
FlushPubDone ==
    /\ fpc = "pub"
    /\ ~fcancelled
    /\ FlushLoop(fq, fnow)
    /\ UNCHANGED <<lnow, connected, userBufs, lastV, fnow, fcancelled, dpc,
                   dq, nframes, fed, lost>>

\* CancelledError reaches the flush task at its await and ends it.
FlushCancelled ==
    /\ fcancelled
    /\ fpc \in {"sleep", "pub"}
    /\ fpc' = "ended"
    /\ fq' = <<>>
    /\ UNCHANGED <<lnow, connected, userBufs, buf, startT, lastV, fnow,
                   fcancelled, dpc, dq, nframes, fed, emitted, lost>>

\* disconnect() up to `await self._flush_task`.
Disconnect ==
    /\ dpc = "idle"
    /\ connected' = FALSE
    /\ fcancelled' = TRUE
    /\ dpc' = "join"
    /\ UNCHANGED <<lnow, userBufs, buf, startT, lastV, fpc, fnow, fq, dq,
                   nframes, fed, emitted, lost>>

\* The for loop of disconnect over q: _emit_chunk returns at once for a
\* buffer below min_chunk_duration and awaits publish for the others; after
\* the loop comes the await of voice_client.disconnect().
DisconnectLoop(q) ==
    LET i == FirstIdx(q, {sp \in Speakers : EmitsAtDisconnect(sp)}) IN
    IF i = 0
    THEN /\ dpc' = "vc"
         /\ dq' = <<>>
         /\ UNCHANGED <<emitted, buf, startT>>
    ELSE /\ Emit(q[i])
         /\ dpc' = "pub"
         /\ dq' = SubSeq(q, i + 1, Len(q))

\* The flush task has ended: flush the remaining buffers.
DisconnectJoined ==
    /\ dpc = "join"
    /\ fpc = "ended"
    /\ DisconnectLoop(userBufs)
    /\ UNCHANGED <<lnow, connected, userBufs, lastV, fpc, fnow, fq,
                   fcancelled, nframes, fed, lost>>

\* The publish awaited by _emit_chunk returns: on with disconnect's loop.
DisconnectPubDone ==
    /\ dpc = "pub"
    /\ DisconnectLoop(dq)
    /\ UNCHANGED <<lnow, connected, userBufs, lastV, fpc, fnow, fq,
                   fcancelled, nframes, fed, lost>>

\* voice_client.disconnect() returns: _user_buffers.clear().
DisconnectClear ==
    /\ dpc = "vc"
    /\ dpc' = "closed"
    /\ lost' = [sp \in Speakers |-> lost[sp] \o buf[sp]]
    /\ buf' = [sp \in Speakers |-> <<>>]
    /\ startT' = [sp \in Speakers |-> 0]
    /\ lastV' = [sp \in Speakers |-> 0]
    /\ userBufs' = <<>>
    /\ UNCHANGED <<lnow, connected, fpc, fnow, fq, fcancelled, dq, nframes,
                   fed, emitted>>

\* The listener's clock advances.
LTick ==
    /\ lnow < MaxLTime
    /\ lnow' = lnow + 1
    /\ UNCHANGED <<connected, userBufs, buf, startT, lastV, fpc, fnow, fq,
                   fcancelled, dpc, dq, nframes, fed, emitted, lost>>

LsnOnly ==
    UNCHANGED <<sumVars, busVars, sttVars, haVars, emVars, cbVars, kitVars,
                lateVars>>

NextLsn ==
    \/ \E sp \in Speakers, speech \in BOOLEAN : Frame(sp, speech) /\ LsnOnly
    \/ FlushWake /\ LsnOnly
    \/ FlushPubDone /\ LsnOnly
    \/ FlushCancelled /\ LsnOnly
    \/ Disconnect /\ LsnOnly
    \/ DisconnectJoined /\ LsnOnly
    \/ DisconnectPubDone /\ LsnOnly
    \/ DisconnectClear /\ LsnOnly
    \/ LTick /\ LsnOnly

(***************************************************************************)
(* CircuitBreaker.                                                         *)
(***************************************************************************)
\* The `state` property: an open breaker whose recovery timeout has elapsed
\* reads as half_open.
StateRead(st, last, t) ==
    IF st = "open" /\ t - last >= RecoveryTimeout THEN "half_open" ELSE st

\* Mutant: an open breaker lets the call through.
RejectedWhenFull(cur, hoc) == cur = "half_open" /\ hoc >= HalfOpenMax

\* The two `raise CircuitOpenError` of call.
Rejected(cur, hoc) ==
    \/ cur = "open"
    \/ cur = "half_open" /\ hoc >= HalfOpenMax

\* Mutant: a success leaves the failure counter alone.
CountKept(cnt) == cnt

\* _on_success: `self._failure_count = 0`
CountAfterSuccess(cnt) == 0

\* Mutant: a failure opens the breaker from closed only.
StateKept(st, cnt) ==
    IF st = "closed" /\ cnt >= FailureThreshold THEN "open" ELSE st

\* _on_failure: open once the counter has reached the threshold.
StateAfterFailure(st, cnt) == IF cnt >= FailureThreshold THEN "open" ELSE st

InitCb ==
    /\ cbState = "closed"
    /\ failure_count = 0
    /\ last_failure_time = 0
    /\ half_open_calls = 0
    /\ cbNow = 1
    /\ kpc = [k \in Callers |-> "new"]
    /\ kadm = [k \in Callers |-> "none"]
    /\ invoked = 0
    /\ streak = 0
    /\ cbLast = [op |-> "none", read |-> "closed", to |-> "closed",
                 cntFrom |-> 0, cntTo |-> 0, ran |-> FALSE]

\* call(func) up to its raise or to the await of func.
Call(k) ==
    /\ kpc[k] = "new"
    /\ LET cur == StateRead(cbState, last_failure_time, cbNow)
           hoc == IF cur # cbState THEN 0 ELSE half_open_calls
           rej == Rejected(cur, hoc)
       IN  /\ cbState' = cur
           /\ half_open_calls' =
                 IF ~rej /\ cur = "half_open" THEN hoc + 1 ELSE hoc
           /\ kpc' = [kpc EXCEPT ![k] = IF rej THEN "rejected" ELSE "run"]
           /\ kadm' = [kadm EXCEPT ![k] = IF rej THEN "none" ELSE cur]
           /\ invoked' = IF rej THEN invoked ELSE invoked + 1
           /\ cbLast' = [op |-> IF rej THEN "rejected" ELSE "admitted",
                         read |-> cur, to |-> cur,
                         cntFrom |-> failure_count, cntTo |-> failure_count,
                         ran |-> ~rej]
    /\ UNCHANGED <<failure_count, last_failure_time, cbNow, streak>>

\* func returns: _on_success.
CallSuccess(k) ==
    /\ kpc[k] = "run"
    /\ kpc' = [kpc EXCEPT ![k] = "ok"]
    /\ cbState' = "closed"
    /\ failure_count' = CountAfterSuccess(failure_count)
    /\ streak' = 0
    /\ cbLast' = [op |-> "ok", read |-> cbState, to |-> cbState',
                  cntFrom |-> failure_count, cntTo |-> failure_count',
                  ran |-> TRUE]
    /\ UNCHANGED <<last_failure_time, half_open_calls, cbNow, kadm, invoked>>

\* func raises: _on_failure, and the exception goes on to the caller.
CallFailure(k) ==
    /\ kpc[k] = "run"
    /\ kpc' = [kpc EXCEPT ![k] = "fail"]
    /\ failure_count' = failure_count + 1
    /\ last_failure_time' = cbNow
    /\ cbState' = StateAfterFailure(cbState, failure_count + 1)
    /\ streak' = streak + 1
    /\ cbLast' = [op |-> "fail", read |-> cbState, to |-> cbState',
                  cntFrom |-> failure_count, cntTo |-> failure_count',
                  ran |-> TRUE]
    /\ UNCHANGED <<half_open_calls, cbNow, kadm, invoked>>

\* The breaker's clock advances.
CbTick ==
    /\ cbNow < MaxCbTime
    /\ cbNow' = cbNow + 1
    /\ UNCHANGED <<cbState, failure_count, last_failure_time,
                   half_open_calls, kpc, kadm, invoked, streak, cbLast>>

CbOnly ==
    UNCHANGED <<sumVars, busVars, sttVars, haVars, emVars, lsnVars, kitVars,
                lateVars>>

NextCb ==
    \/ \E k \in Callers : Call(k) /\ CbOnly
    \/ \E k \in Callers : CallSuccess(k) /\ CbOnly
    \/ \E k \in Callers : CallFailure(k) /\ CbOnly
    \/ CbTick /\ CbOnly

(***************************************************************************)
(* retry_async (core/resilience.py).  One call of it, with func and the    *)
(* optional on_retry as the environment: each await of func returns a      *)
(* value or raises an error, each await of on_retry returns or raises.     *)
(***************************************************************************)

MaxAttempts == 3

Errs == {"errA", "errB"}
Vals == {"valA", "valB"}

\* RetryConfig scaled to small integers: base_delay_s, exponential_base and
\* max_delay_s, the last one low enough for the cap to apply.
RetryCfg == [base |-> 1, exp |-> 2, maxd |-> 3]

RECURSIVE Pow(_, _)
Pow(b, n) == IF n = 0 THEN 1 ELSE b * Pow(b, n - 1)

\* delay = min(base_delay_s * exponential_base ** attempt, max_delay_s)
Delay(a) ==
    LET d == RetryCfg.base * Pow(RetryCfg.exp, a)
    IN  IF d < RetryCfg.maxd THEN d ELSE RetryCfg.maxd

RetriesLeftAlways(a, max) == TRUE

\* if attempt < cfg.max_attempts - 1
RetriesLeft(a, max) == a < max - 1

NoRet == [kind |-> "none", val |-> "none"]

\* No call of retry_async in progress.
IdleRetry ==
    /\ max_attempts = MaxAttempts
    /\ on_retry = FALSE
    /\ rattempt = 0
    /\ last_exc = "none"
    /\ rpc = "idle"
    /\ outcomes = <<>>
    /\ notified = <<>>
    /\ sleeps = <<>>
    /\ ret = NoRet

\* retry_async entered: cfg read, last_exc = None, the loop at attempt 0
\* about to await func.  max_attempts counts attempts, so at least one.
InitRetry ==
    /\ max_attempts \in 1..MaxAttempts
    /\ on_retry \in BOOLEAN
    /\ rattempt = 0
    /\ last_exc = "none"
    /\ rpc = "call"
    /\ outcomes = <<>>
    /\ notified = <<>>
    /\ sleeps = <<>>
    /\ ret = NoRet

\* await asyncio.sleep(delay)
StartSleep(a) ==
    /\ rpc' = "sleep"
    /\ sleeps' = Append(sleeps, Delay(a))

\* The for loop moves on: the next attempt, or `raise last_exc` after the
\* loop.
LoopNext(exc) ==
    IF rattempt + 1 < max_attempts
    THEN /\ rattempt' = rattempt + 1
         /\ rpc' = "call"
         /\ ret' = ret
    ELSE /\ rattempt' = rattempt
         /\ rpc' = "done"
         /\ ret' = [kind |-> "raised", val |-> exc]

\* `return await func(*args, **kwargs)` completes with out.
Attempt(out) ==
    /\ rpc = "call"
    /\ outcomes' = Append(outcomes, out)
    /\ IF out \in Vals
       THEN /\ rpc' = "done"
            /\ ret' = [kind |-> "returned", val |-> out]
            /\ UNCHANGED <<rattempt, last_exc, sleeps>>
       ELSE /\ last_exc' = out
            /\ IF RetriesLeft(rattempt, max_attempts)
               THEN /\ IF on_retry
                       THEN rpc' = "notify" /\ sleeps' = sleeps
                       ELSE StartSleep(rattempt)
                    /\ UNCHANGED <<rattempt, ret>>
               ELSE LoopNext(out) /\ sleeps' = sleeps
    /\ UNCHANGED <<max_attempts, on_retry, notified>>

\* `await on_retry(attempt, exc)` completes; an error it raises leaves
\* retry_async from inside the except block.
Notify(raises) ==
    /\ rpc = "notify"
    /\ notified' = Append(notified, <<rattempt, last_exc>>)
    /\ IF raises
       THEN /\ rpc' = "done"
            /\ ret' = [kind |-> "callback_raised", val |-> "cbErr"]
            /\ sleeps' = sleeps
       ELSE /\ StartSleep(rattempt)
            /\ ret' = ret
    /\ UNCHANGED <<max_attempts, on_retry, rattempt, last_exc, outcomes>>

\* asyncio.sleep returns.
RetryWake ==
    /\ rpc = "sleep"
    /\ LoopNext(last_exc)
    /\ UNCHANGED <<max_attempts, on_retry, last_exc, outcomes, notified,
                   sleeps>>

RetryOnly ==
    UNCHANGED <<sumVars, busVars, sttVars, haVars, emVars, lsnVars, cbVars,
                rcVars, lateVars>>

NextRetry ==
    \/ \E out \in Vals \cup Errs : Attempt(out) /\ RetryOnly
    \/ \E raises \in BOOLEAN : Notify(raises) /\ RetryOnly
    \/ RetryWake /\ RetryOnly

(***************************************************************************)
(* ReconnectionManager (core/resilience.py): start(), the monitor task it  *)
(* spawns, and stop() called by several callers.  connect, disconnect and  *)
(* is_connected are the environment.                                       *)
(***************************************************************************)

MaxStops == 3
MaxDrops == 1
MaxConnects == 4
RcMaxAttempts == 2

Stoppers == 1..MaxStops

InitRc ==
    /\ running = FALSE
    /\ monitor_task = "none"
    /\ startPc = "new"
    /\ mpc = "none"
    /\ mcancel = FALSE
    /\ mattempt = 0
    /\ isConnected = FALSE
    /\ spc = [s \in Stoppers |-> "idle"]
    /\ connects = 0
    /\ disconnects = 0
    /\ drops = 0

\* start() up to `await self._connect(*args, **kwargs)`.
RcStart ==
    /\ startPc = "new"
    /\ running' = TRUE
    /\ connects' = connects + 1
    /\ startPc' = "connect"
    /\ UNCHANGED <<monitor_task, mpc, mcancel, mattempt, isConnected, spc,
                   disconnects, drops>>

\* connect returns and start() creates the monitor task, or connect raises
\* and start() raises with it.
RcStartConnected(ok) ==
    /\ startPc = "connect"
    /\ IF ok
       THEN /\ isConnected' = TRUE
            /\ monitor_task' = "task"
            /\ mpc' = "sleep"
            /\ startPc' = "started"
       ELSE /\ startPc' = "raised"
            /\ UNCHANGED <<isConnected, monitor_task, mpc>>
    /\ UNCHANGED <<running, mcancel, mattempt, spc, connects, disconnects,
                   drops>>

MonitorOver == mpc \in {"done", "cancelled"}

\* stop() from its first line to its first suspension: the await of a live
\* monitor task, or else the await of disconnect.  Awaiting a task that is
\* already over does not suspend.
Stop(s) ==
    /\ startPc = "started"
    /\ spc[s] = "idle"
    /\ running' = FALSE
    /\ IF monitor_task = "task" /\ ~MonitorOver
       THEN /\ mcancel' = TRUE
            /\ spc' = [spc EXCEPT ![s] = "join"]
            /\ UNCHANGED <<monitor_task, disconnects>>
       ELSE /\ monitor_task' = "none"
            /\ disconnects' = disconnects + 1
            /\ spc' = [spc EXCEPT ![s] = "disc"]
            /\ mcancel' = mcancel
    /\ UNCHANGED <<startPc, mpc, mattempt, isConnected, connects, drops>>

\* The awaited monitor task is over: _monitor_task = None, then
\* `await self._disconnect()`.
StopJoined(s) ==
    /\ spc[s] = "join"
    /\ MonitorOver
    /\ monitor_task' = "none"
    /\ disconnects' = disconnects + 1
    /\ spc' = [spc EXCEPT ![s] = "disc"]
    /\ UNCHANGED <<running, startPc, mpc, mcancel, mattempt, isConnected,
                   connects, drops>>

\* disconnect returns, or raises and stop() swallows it.
StopDisconnected(s) ==
    /\ spc[s] = "disc"
    /\ spc' = [spc EXCEPT ![s] = "done"]
    /\ isConnected' = FALSE
    /\ UNCHANGED <<running, monitor_task, startPc, mpc, mcancel, mattempt,
                   connects, disconnects, drops>>

\* The CancelledError of cancel() reaches the monitor at its await.
Cancelled ==
    /\ mpc' = "cancelled"
    /\ mcancel' = FALSE
    /\ UNCHANGED <<mattempt, connects, isConnected>>

\* `while self._running:` of _monitor_loop.
WhileHead ==
    /\ mpc' = IF running THEN "sleep" ELSE "done"
    /\ UNCHANGED <<mattempt, connects>>

\* Mutant: the for loop runs one attempt longer.
AttemptNextOnceMore(a) ==
    IF a <= RcMaxAttempts /\ running
    THEN /\ mattempt' = a
         /\ connects' = connects + 1
         /\ mpc' = "connect"
    ELSE WhileHead

\* The for loop of _attempt_reconnect at attempt a.
AttemptNext(a) ==
    IF a < RcMaxAttempts /\ running
    THEN /\ mattempt' = a
         /\ connects' = connects + 1
         /\ mpc' = "connect"
    ELSE WhileHead

\* asyncio.sleep(5.0) of _monitor_loop returns.
MonitorWake ==
    /\ mpc = "sleep"
    /\ connects < MaxConnects
    /\ IF mcancel
       THEN Cancelled
       ELSE /\ IF ~running
               THEN mpc' = "done" /\ UNCHANGED <<mattempt, connects>>
               ELSE IF ~isConnected THEN AttemptNext(0) ELSE WhileHead
            /\ UNCHANGED <<mcancel, isConnected>>
    /\ UNCHANGED <<running, monitor_task, startPc, spc, disconnects, drops>>

\* connect of _attempt_reconnect returns (is_connected() then answers
\* conn) or raises.
MonitorConnected(ok, conn) ==
    /\ mpc = "connect"
    /\ connects < MaxConnects
    /\ IF mcancel
       THEN Cancelled
       ELSE /\ mcancel' = mcancel
            /\ IF ok
               THEN /\ isConnected' = conn
                    /\ IF conn THEN WhileHead ELSE AttemptNext(mattempt + 1)
               ELSE /\ mpc' = "backoff"
                    /\ UNCHANGED <<isConnected, mattempt, connects>>
    /\ UNCHANGED <<running, monitor_task, startPc, spc, disconnects, drops>>

\* The back-off sleep of _attempt_reconnect returns.
MonitorBackoffWake ==
    /\ mpc = "backoff"
    /\ connects < MaxConnects
    /\ IF mcancel
       THEN Cancelled
       ELSE AttemptNext(mattempt + 1) /\ UNCHANGED <<mcancel, isConnected>>
    /\ UNCHANGED <<running, monitor_task, startPc, spc, disconnects, drops>>

\* The connection is lost.
Drop ==
    /\ startPc = "started"
    /\ isConnected
    /\ drops < MaxDrops
    /\ isConnected' = FALSE
    /\ drops' = drops + 1
    /\ UNCHANGED <<running, monitor_task, startPc, mpc, mcancel, mattempt,
                   spc, connects, disconnects>>

RcOnly ==
    UNCHANGED <<sumVars, busVars, sttVars, haVars, emVars, lsnVars, cbVars,
                rtVars, lateVars>>

NextRc ==
    \/ RcStart /\ RcOnly
    \/ \E ok \in BOOLEAN : RcStartConnected(ok) /\ RcOnly
    \/ \E s \in Stoppers : Stop(s) /\ RcOnly
    \/ \E s \in Stoppers : StopJoined(s) /\ RcOnly
    \/ \E s \in Stoppers : StopDisconnected(s) /\ RcOnly
    \/ MonitorWake /\ RcOnly
    \/ \E ok, conn \in BOOLEAN : MonitorConnected(ok, conn) /\ RcOnly
    \/ MonitorBackoffWake /\ RcOnly
    \/ Drop /\ RcOnly

(***************************************************************************)
(* A TranscriptionEvent on the bus: BaseSummarizer._handle_transcription    *)
(* and Application._persist_transcription, both subscribed to it.          *)
(***************************************************************************)

MaxIgnored == 2

\* self._session_id as start(session_id) set it, and the session ids an
\* event may carry.
ActiveSession == "sess1"
SessionIds == {"sess1", "sess2"}

NoEvent == [partial |-> FALSE, sid |-> "none"]

\* Mutant: the session of the event is not looked at.
AcceptsAnySession(partial, sid) == ~partial

\* The two early returns of _handle_transcription.
Accepts(partial, sid) == ~partial /\ sid = ActiveSession

\* `if event.is_partial: return` of _persist_transcription.
Persists(partial) == ~partial

InitIn ==
    /\ evOf = [t \in TransTasks |-> NoEvent]
    /\ stored = {}
    /\ ignored = 0
    /\ lastIn = [partial |-> FALSE, sid |-> "none", touched |-> FALSE]

\* gather starts both handlers with the event: _persist_transcription up to
\* its await of save_transcription (which stores the row or raises), and
\* _handle_transcription up to its return or to the first suspension of
\* process_transcription.
PublishTranscription(partial, sid, saved) ==
    /\ subscribed
    /\ stored' = IF Persists(partial) /\ saved
                 THEN stored \cup {[partial |-> partial, sid |-> sid]}
                 ELSE stored
    /\ IF Accepts(partial, sid)
       THEN /\ \E t \in TransTasks :
                  /\ Arrive(t)
                  /\ evOf' = [evOf EXCEPT
                                ![t] = [partial |-> partial, sid |-> sid]]
            /\ UNCHANGED <<hasDb, ignored>>
       ELSE /\ ignored < MaxIgnored
            /\ ignored' = ignored + 1
            /\ UNCHANGED <<sumVars, evOf>>
    /\ lastIn' = [partial |-> partial, sid |-> sid,
                  touched |-> (pending' # pending \/ started' # started
                               \/ waiters' # waiters)]

InOnly ==
    UNCHANGED <<busVars, sttVars, haVars, emVars, lsnVars, cbVars, kitVars,
                finVars, lcVars, monoVars, npcVars,
                tailVars>>

\* The summarizer of NextSum fed by events of every kind.
NextIntake ==
    \/ \E partial, saved \in BOOLEAN, sid \in SessionIds :
          PublishTranscription(partial, sid, saved) /\ InOnly
    \/ \E t \in TransTasks : Wake(t) /\ SumOnly
    \/ \E t \in TransTasks : LlmOk(t) /\ SumOnly
    \/ \E t \in TransTasks : LlmFail(t) /\ SumOnly
    \/ \E t \in Tasks : Backoff(t) /\ SumOnly
    \/ \E t \in TransTasks : Release(t) /\ SumOnly
    \/ Tick /\ SumOnly

(***************************************************************************)
(* finalize_session with the text of the LLM response.  A text is a        *)
(* sequence of tokens: the two markers, a word and white space.            *)
(***************************************************************************)

MaxResp == 4

\* "---SESSION_SUMMARY---", "---CAMPAIGN_SUMMARY---", a word, a newline.
Tokens == {"SM", "CM", "a", "ws"}

SeqsUpTo(T, n) == UNION {[1..k -> T] : k \in 0..n}

\* campaign.campaign_summary as the summarizer was built with.
OldCampaign == <<"old">>

NotReturned == <<"none">>

\* str.find: the first position of tok in r (0: absent).
IndexOf(r, tok) ==
    IF \E i \in 1..Len(r) : r[i] = tok
    THEN Min({i \in 1..Len(r) : r[i] = tok})
    ELSE 0

\* `tok in r`
Contains(r, tok) == IndexOf(r, tok) # 0

\* result.split(tok)[0]
SplitHead(r, tok) == SubSeq(r, 1, IndexOf(r, tok) - 1)

\* result.split(tok)[1]
SplitSecond(r, tok) ==
    LET rest == SubSeq(r, IndexOf(r, tok) + 1, Len(r))
    IN  IF Contains(rest, tok) THEN SplitHead(rest, tok) ELSE rest

\* Mutant: the marker stays in the left part.
RemoveNothing(r, tok) == r

\* str.replace(tok, "")
RemoveAll(r, tok) == SelectSeq(r, LAMBDA x : x # tok)

RECURSIVE LStrip(_)
LStrip(r) == IF r # <<>> /\ Head(r) = "ws" THEN LStrip(Tail(r)) ELSE r

RECURSIVE RStrip(_)
RStrip(r) ==
    IF r # <<>> /\ r[Len(r)] = "ws" THEN RStrip(SubSeq(r, 1, Len(r) - 1))
                                     ELSE r

\* str.strip()
StripWs(r) == RStrip(LStrip(r))

BothMarkers(r) == Contains(r, "SM") /\ Contains(r, "CM")

\* session_part of finalize_session
SessionPart(r) ==
    IF BothMarkers(r) THEN StripWs(RemoveAll(SplitHead(r, "CM"), "SM")) ELSE r

\* campaign_part of finalize_session ("" when a marker is missing)
CampaignPart(r) ==
    IF BothMarkers(r) THEN StripWs(SplitSecond(r, "CM")) ELSE <<>>

\* No finalize_session under way.
InitFin ==
    /\ finResp = <<>>
    /\ sessText = <<>>
    /\ campaign_summary = OldCampaign
    /\ finRet = NotReturned

\* The response the LLM is going to give to finalize_session.
InitFinResp ==
    /\ finResp \in SeqsUpTo(Tokens, MaxResp)
    /\ sessText = <<>>
    /\ campaign_summary = OldCampaign
    /\ finRet = NotReturned

\* _call_api returns finResp: parse it, assign both summaries and await the
\* publish of the final update.
FinParse ==
    /\ FinLlmOk
    /\ sessText' = SessionPart(finResp)
    /\ campaign_summary' = IF CampaignPart(finResp) # <<>>
                           THEN CampaignPart(finResp)
                           ELSE campaign_summary
    /\ UNCHANGED <<finResp, finRet>>

\* The publish returns: `return self._session_summary`.
FinReturnText ==
    /\ FinReturn
    /\ finRet' = sessText
    /\ UNCHANGED <<finResp, sessText, campaign_summary>>

FinOnly ==
    UNCHANGED <<hasDb, busVars, sttVars, haVars, emVars, lsnVars, cbVars,
                kitVars, inVars, lcVars, monoVars, npcVars,
                tailVars>>

FinIdle == UNCHANGED finVars

\* finalize_session called at any point of the arrivals.
NextFin ==
    \/ \E t \in TransTasks : Arrive(t) /\ FinOnly /\ FinIdle
    \/ FinStart /\ FinOnly /\ FinIdle
    \/ FinParse /\ FinOnly
    \/ FinLlmFail /\ FinOnly /\ FinIdle
    \/ Backoff(FinTask) /\ FinOnly /\ FinIdle
    \/ FinReturnText /\ FinOnly

(***************************************************************************)
(* start() and stop() of OpenAITranscriber and of BaseSummarizer, each      *)
(* callable any number of times and in any order.                          *)
(***************************************************************************)

MaxStopCalls == 3

Comps == {"transcriber", "summarizer"}
StopCalls == 1..MaxStopCalls
\* The component's own handler and another subscriber of the same event.
LcHandlers == {"own", "peer"}
\* Cache entries of the transcriber, pending entries of the summarizer.
Items == {"i1", "i2"}

\* Mutant: list.remove without the membership test raises ValueError.
UnsubscribeRaisesAbsent(l, h) == h \notin Range(l)

\* EventBus.unsubscribe tests `handler in handlers` first: nothing raised.
UnsubscribeRaises(l, h) == FALSE

\* What stop() does to the component's own state: OpenAITranscriber.stop
\* clears _cache, BaseSummarizer.stop touches nothing.
StateAfterStop(c, st) == IF c = "transcriber" THEN {} ELSE st

\* What start() does to it: BaseSummarizer.start clears _pending.
StateAfterStart(c, st) == IF c = "summarizer" THEN {} ELSE st

InitLc ==
    /\ lcStarted = [c \in Comps |-> FALSE]
    /\ lcSubs = [c \in Comps |-> <<"peer">>]
    /\ lcState = [c \in Comps |-> {}]
    /\ lcPc = [c \in Comps |-> [k \in StopCalls |-> "new"]]
    /\ lcRaised = FALSE
    /\ lcDirty = [c \in Comps |-> TRUE]
    /\ lastStop = [comp |-> "none", repeat |-> FALSE, changed |-> FALSE]

\* start(): subscribe the handler (the publish of SystemStatus follows).
LcStart(c) ==
    /\ ~lcStarted[c]
    /\ lcStarted' = [lcStarted EXCEPT ![c] = TRUE]
    /\ lcSubs' = [lcSubs EXCEPT ![c] = SubscribeList(lcSubs[c], "own")]
    /\ lcState' = [lcState EXCEPT ![c] = StateAfterStart(c, lcState[c])]
    /\ lcDirty' = [lcDirty EXCEPT ![c] = TRUE]
    /\ UNCHANGED <<lcPc, lcRaised, lastStop>>

\* A started component works: transcribe() writes a cache entry,
\* process_transcription appends to _pending; a handler already running
\* does so after stop() as well.
LcWork(c, it) ==
    /\ lcStarted[c]
    /\ it \notin lcState[c]
    /\ lcState' = [lcState EXCEPT ![c] = lcState[c] \cup {it}]
    /\ lcDirty' = [lcDirty EXCEPT ![c] = TRUE]
    /\ UNCHANGED <<lcStarted, lcSubs, lcPc, lcRaised, lastStop>>

\* stop() up to the await of the publish of SystemStatus(idle).
LcStop(c, k) ==
    /\ lcPc[c][k] = "new"
    /\ \A j \in StopCalls : j < k => lcPc[c][j] # "new"
    /\ lcState' = [lcState EXCEPT ![c] = StateAfterStop(c, lcState[c])]
    /\ lcSubs' = [lcSubs EXCEPT ![c] = UnsubscribeList(lcSubs[c], "own")]
    /\ lcRaised' = (lcRaised \/ UnsubscribeRaises(lcSubs[c], "own"))
    /\ lcPc' = [lcPc EXCEPT ![c][k] = "pub"]
    /\ lcDirty' = [lcDirty EXCEPT ![c] = FALSE]
    /\ lastStop' = [comp |-> c,
                    repeat |-> ~lcDirty[c],
                    changed |-> (lcState'[c] # lcState[c]
                                 \/ lcSubs'[c] # lcSubs[c])]
    /\ UNCHANGED lcStarted

\* The publish returns and stop() with it.
LcStopReturn(c, k) ==
    /\ lcPc[c][k] = "pub"
    /\ lcPc' = [lcPc EXCEPT ![c][k] = "done"]
    /\ UNCHANGED <<lcStarted, lcSubs, lcState, lcRaised, lcDirty, lastStop>>

LcOnly ==
    UNCHANGED <<sumVars, busVars, sttVars, haVars, emVars, lsnVars, cbVars,
                kitVars, inVars, finVars, monoVars, npcVars,
                tailVars>>

NextLc ==
    \/ \E c \in Comps : LcStart(c) /\ LcOnly
    \/ \E c \in Comps, it \in Items : LcWork(c, it) /\ LcOnly
    \/ \E c \in Comps, k \in StopCalls : LcStop(c, k) /\ LcOnly
    \/ \E c \in Comps, k \in StopCalls : LcStopReturn(c, k) /\ LcOnly

(***************************************************************************)
(* _stereo_to_mono: interleaved little-endian 16-bit stereo to mono.       *)
(***************************************************************************)
\* The most channel samples in one argument.
MaxStereoSamples == 4

DISCORD_SAMPLE_WIDTH == 2

DISCORD_CHANNELS == 2

\* The channel samples the inputs are made of: the two ends of the signed
\* 16-bit range, zero, and small values of either sign and parity.
SampleVals == {-32768, -3, -1, 0, 1, 32767}

\* struct.pack("<h", v): the two bytes of v in two's complement, low first.
PackH(v) ==
    LET u == IF v < 0 THEN v + 65536 ELSE v
    IN  <<u % 256, u \div 256>>

\* struct.unpack("<h", <<lo, hi>>).
UnpackH(lo, hi) ==
    LET u == lo + 256 * hi
    IN  IF u >= 32768 THEN u - 65536 ELSE u

\* struct.pack(f"<{len(vs)}h", *vs).
RECURSIVE PackAll(_)
PackAll(vs) ==
    IF vs = <<>> THEN <<>> ELSE PackH(Head(vs)) \o PackAll(Tail(vs))

\* struct.unpack(f"<{n}h", bytes), for bytes of exactly 2 * n bytes.
UnpackAll(bytes, n) ==
    [i \in 1..n |-> UnpackH(bytes[2 * i - 1], bytes[2 * i])]

\* Mutant: the average rounded toward zero.
AvgTowardZero(l, r) ==
    IF l + r >= 0 THEN (l + r) \div 2 ELSE -((-(l + r)) \div 2)

\* avg = (samples[i] + samples[i + 1]) // 2: Python's floor division.
Avg(l, r) == (l + r) \div 2

\* No call yet, and an empty argument.
IdleMono ==
    /\ pcm_stereo = <<>>
    /\ mono_bytes = <<>>
    /\ monoPc = "idle"

\* The argument is any packing of up to MaxStereoSamples channel samples; an
\* odd number of them is a truncated last frame.
InitMono ==
    /\ \E vs \in SeqsUpTo(SampleVals, MaxStereoSamples) :
          pcm_stereo = PackAll(vs)
    /\ mono_bytes = <<>>
    /\ monoPc = "idle"

\* _stereo_to_mono(pcm_stereo): struct.unpack raises struct.error unless the
\* argument has exactly the size of its format.
StereoToMono ==
    LET n_samples == Len(pcm_stereo)
                        \div (DISCORD_SAMPLE_WIDTH * DISCORD_CHANNELS)
        count   == n_samples * DISCORD_CHANNELS
        samples == UnpackAll(pcm_stereo, count)
        mono    == [k \in 1..n_samples |->
                       Avg(samples[2 * k - 1], samples[2 * k])]
    IN  /\ monoPc = "idle"
        /\ IF Len(pcm_stereo) # count * DISCORD_SAMPLE_WIDTH
           THEN /\ monoPc' = "raised"
                /\ mono_bytes' = mono_bytes
           ELSE /\ monoPc' = "done"
                /\ mono_bytes' = PackAll(mono)
        /\ UNCHANGED pcm_stereo

MonoOnly ==
    UNCHANGED <<sumVars, busVars, sttVars, haVars, emVars, lsnVars, cbVars,
                kitVars, inVars, finVars, lcVars, npcVars,
                tailVars>>

NextMono == StereoToMono /\ MonoOnly

(***************************************************************************)
(* finalize_session with a database: the npcs table.                       *)
(***************************************************************************)
\* The names an extraction answer can hold; "" is an entry without a name.
NpcNames == {"", "Gareth", "Tabernero"}

\* An empty table, nothing to extract, save_npc never called.
IdleNpc ==
    /\ extraction = {}
    /\ npc_table = {}
    /\ save_npc_calls = <<>>

\* The transcriber started and the session's row as create_session wrote it.
IdleTail ==
    /\ tstop = "running"
    /\ session_status = "active"
    /\ InitPipe

\* Any answer of the LLM about NPCs, any rows already in the table.
InitNpc ==
    /\ extraction \in SUBSET NpcNames
    /\ npc_table \in SUBSET (NpcNames \ {""})
    /\ save_npc_calls = <<>>

\* finalize_session of a summarizer with a database, after any arrivals.
\* Nothing in it asks the LLM for NPCs, reads npc_exists or calls save_npc.
NextNpc ==
    \/ \E t \in TransTasks : Arrive(t) /\ SumOnly
    \/ \E t \in TransTasks : Fetch(t) /\ SumOnly
    \/ \E t \in TransTasks : LlmOk(t) /\ SumOnly
    \/ \E t \in TransTasks : Release(t) /\ SumOnly
    \/ FinStart /\ SumOnly
    \/ FinLlmOk /\ SumOnly
    \/ FinLlmFail /\ SumOnly
    \/ Backoff(FinTask) /\ SumOnly
    \/ FinReturn /\ SumOnly
    \/ Tick /\ SumOnly

\* The components modelled last, as constructed.
IdleLate == InitIn /\ InitFin /\ InitLc /\ IdleMono /\ IdleNpc
    /\ IdleTail

\* Every later component as constructed.
IdleRest ==
    InitHa /\ IdleEmit /\ InitLsn /\ InitCb /\ IdleRetry /\ InitRc /\ IdleLate

\* The summarizer started without a database; bus and transcriber idle.
Init == InitSum /\ ~hasDb /\ IdleBus /\ InitStt /\ IdleRest

Spec == Init /\ [][NextSum]_vars

\* The summarizer started with a database.
InitDb == InitSum /\ hasDb /\ IdleBus /\ InitStt /\ IdleRest

SpecDb == InitDb /\ [][NextDb]_vars

SpecPass == InitDb /\ [][NextPass]_vars

\* What the event loop and the LLM client guarantee: a task waiting for a
\* free lock is resumed, a request returns or raises, a sleep ends and an
\* awaited publish returns. Transcriptions, the clock reading and the end of
\* the session come from outside and are promised by nothing.
SumFair ==
    /\ \A t \in TransTasks : WF_vars(Wake(t) /\ SumOnly)
    /\ \A t \in TransTasks : WF_vars((LlmOk(t) \/ LlmFail(t)) /\ SumOnly)
    /\ \A t \in TransTasks : WF_vars(Backoff(t) /\ SumOnly)
    /\ \A t \in TransTasks : WF_vars(Release(t) /\ SumOnly)

SpecLive == Init /\ [][NextSum]_vars /\ SumFair

InitBusSpec == InitSum /\ ~hasDb /\ InitBus /\ InitStt /\ IdleRest

SpecBus == InitBusSpec /\ [][NextBus]_vars

SpecStt == Init /\ [][NextStt]_vars

SpecHandle == Init /\ [][NextHandle]_vars

InitEmitSpec ==
    /\ InitSum /\ ~hasDb /\ IdleBus /\ InitStt
    /\ InitHa /\ InitEmit /\ InitLsn /\ InitCb /\ IdleRetry /\ InitRc
    /\ IdleLate

SpecEmit == InitEmitSpec /\ [][NextEmit]_vars

SpecLsn == Init /\ [][NextLsn]_vars

SpecCb == Init /\ [][NextCb]_vars

InitRetrySpec ==
    /\ InitSum /\ ~hasDb /\ IdleBus /\ InitStt
    /\ InitHa /\ IdleEmit /\ InitLsn /\ InitCb /\ InitRetry /\ InitRc
    /\ IdleLate

SpecRetry == InitRetrySpec /\ [][NextRetry]_vars

SpecRc == Init /\ [][NextRc]_vars

SpecIntake == Init /\ [][NextIntake]_vars

InitFinSpec ==
    /\ InitSum /\ ~hasDb /\ IdleBus /\ InitStt
    /\ InitHa /\ IdleEmit /\ InitLsn /\ InitCb /\ IdleRetry /\ InitRc
    /\ InitIn /\ InitFinResp /\ InitLc /\ IdleMono /\ IdleNpc
    /\ IdleTail

SpecFin == InitFinSpec /\ [][NextFin]_vars

SpecLc == Init /\ [][NextLc]_vars

InitMonoSpec ==
    /\ InitSum /\ ~hasDb /\ IdleBus /\ InitStt
    /\ InitHa /\ IdleEmit /\ InitLsn /\ InitCb /\ IdleRetry /\ InitRc
    /\ InitIn /\ InitFin /\ InitLc /\ InitMono /\ IdleNpc
    /\ IdleTail

SpecMono == InitMonoSpec /\ [][NextMono]_vars

InitNpcSpec ==
    /\ InitSum /\ hasDb /\ IdleBus /\ InitStt
    /\ InitHa /\ IdleEmit /\ InitLsn /\ InitCb /\ IdleRetry /\ InitRc
    /\ InitIn /\ InitFin /\ InitLc /\ IdleMono /\ InitNpc
    /\ IdleTail

SpecNpc == InitNpcSpec /\ [][NextNpc]_vars

SpecStop == Init /\ [][NextStop]_vars

SpecEnd == Init /\ [][NextEnd]_vars

SpecPipe == Init /\ [][NextPipe]_vars

(***************************************************************************)
(* Claims about the summarizer and the question store.                     *)
(***************************************************************************)
\* The stretches of a pass (incremental or final) between its start and its
\* return; "llm" is an LLM request in flight.
PassPcs == {"fetch", "mark", "llm", "backoff", "save", "pub", "errpub"}

InFlight == {t \in Tasks : pc[t] \in PassPcs}

Ascending(s) == \A i, j \in 1..Len(s) : i < j => s[i] < s[j]

Accounted(id) ==
    \/ id \in Range(pending)
    \/ \E t \in Tasks : id \in Range(entries[t])
    \/ id \in consumed

\* C1: whatever raises in an incremental pass between the snapshot and the
\* publish, the snapshot goes back to the front of pending: every delivered
\* transcription is in pending, in the snapshot of a pass still running (or
\* in the text finalize_session took), or was sent in a pass that succeeded,
\* and pending keeps the arrival order.
C1_PendingRestored ==
    /\ \A id \in 1..arrived : Accounted(id)
    /\ Ascending(pending)

\* C2: at most one pass, incremental or final, is in flight at any time, and
\* no two LLM requests of the summarizer overlap.
C2_OnePassInFlight ==
    /\ Cardinality(InFlight) <= 1
    /\ Cardinality({t \in Tasks : pc[t] = "llm"}) <= 1

\* One step of a question's status along pending, answered, processed.
StatusStep(a, b) ==
    \/ a = b
    \/ a = "none" /\ b = "pending"
    \/ a = "pending" /\ b = "answered"
    \/ a = "answered" /\ b = "processed"

\* C3: a question's status only ever moves forward along pending, answered,
\* processed; no operation moves it back.
C3_QuestionMonotone ==
    [][\A q \in Questions : StatusStep(qstatus[q], qstatus'[q])]_vars

\* C4: the answer of a question is carried by the prompt of at most one pass;
\* once processed it is never injected again.
C4_AnswerSeenOnce == \A q \in Questions : injected[q] <= 1

\* The coalescing scenario: the interval rule never fired and
\* finalize_session() has not been called.
CoalescingScenario == ~intervalElapsed /\ pc[FinTask] = "new"

\* C5: with max_pending = 2 and the interval not elapsed, no pass starts
\* before the second transcription and exactly one starts with it; the third,
\* arriving while that pass runs, is buffered and starts no second pass; and
\* when the pass has succeeded, after three transcriptions exactly one
\* SummaryUpdate has been published and pending holds the third entry alone.
C5_Coalescing ==
    CoalescingScenario =>
      /\ arrived < MaxPending => started = 0
      /\ arrived = MaxPending => started = 1
      /\ (arrived = MaxPending + 1 /\ pc[MaxPending] \in PassPcs) =>
            /\ started = 1
            /\ pc[MaxPending + 1] \in {"done", "wait"}
            /\ pc[MaxPending] # "errpub" => pending = <<MaxPending + 1>>
      /\ (arrived = MaxPending + 1 /\ errors = 0
            /\ \A t \in TransTasks : pc[t] \in {"new", "done"}) =>
            /\ Len(published) = 1
            /\ pending = <<MaxPending + 1>>

\* C5 witness: the third transcription arrived while the pass started by the
\* second awaits the LLM, and sits alone in pending.
C5_Witness ==
    /\ CoalescingScenario
    /\ arrived = 3
    /\ pc[2] = "llm"
    /\ pending = <<3>>
    /\ started = 1

(***************************************************************************)
(* Claims about the event bus.                                             *)
(***************************************************************************)
\* C6: whichever handlers always raise, publish never lets an exception out,
\* no handler is invoked more than once per publish, and when publish has
\* returned every non-raising handler has been invoked once for each publish
\* made while it was subscribed.
C6_BusIsolation ==
    /\ ~pubRaised
    /\ \A h \in Handlers : delivered[h] <= expected[h]
    /\ pubState = "idle" =>
          \A h \in Handlers \ raisers : delivered[h] = expected[h]

\* C6 witness: a raising handler ran ahead of a good one in two publishes
\* and the good one was still invoked twice.
C6_Witness ==
    /\ pubState = "idle"
    /\ publishes = 2
    /\ snapshot = <<1, 2>>
    /\ 1 \in raisers
    /\ 2 \notin raisers
    /\ delivered[1] = 2
    /\ delivered[2] = 2

\* C7: every list of the registry is free of duplicates and holds a handler
\* exactly when the latest call on its (type, handler) pair was subscribe;
\* subscribing a registered pair and unsubscribing an absent one change
\* nothing; and a publish invokes each handler once iff its latest call was
\* subscribe.
C7_RegistryIdempotent ==
    /\ \A ty \in Types : NoDup(handlers[ty])
    /\ \A ty \in Types, h \in Handlers :
          h \in Range(handlers[ty]) <=> lastOp[ty][h] = "sub"
    /\ (lastCall.op = "sub" /\ lastCall.present) => lastCall.same
    /\ (lastCall.op = "unsub" /\ ~lastCall.present) => lastCall.same
    /\ NoDup(snapshot)
    /\ pubState = "idle" => \A h \in Handlers : delivered[h] = expected[h]

\* C7 witness: a pair was subscribed again, nothing changed, and the publish
\* that followed invoked the handler once.
C7_Witness ==
    /\ lastCall = [op |-> "sub", present |-> TRUE, same |-> TRUE]
    /\ regOps = 2
    /\ publishes = 1
    /\ pubState = "idle"
    /\ \E h \in Handlers : delivered[h] = 1 /\ snapshot = <<h>>

\* C8: publish returns only when every handler it launched has completed or
\* failed, and while it waits a suspended handler holds back neither the
\* start of the next sibling nor the completion of any other.
C8_ConcurrentJoin ==
    /\ pubState = "idle" => \A i \in DOMAIN hs : hs[i] \in {"ok", "exc"}
    /\ pubState = "gather" =>
          \A i \in DOMAIN hs :
             /\ hs[i] = "susp" => ENABLED HandlerResume(i)
             /\ (hs[i] = "ready" /\ \A j \in 1..(i - 1) : hs[j] # "ready")
                   => ENABLED HandlerStart(i)

\* C8 witness: the first handler is suspended and its sibling has completed.
C8_Witness ==
    /\ pubState = "gather"
    /\ Len(hs) = 2
    /\ hs[1] = "susp"
    /\ hs[2] = "ok"

(***************************************************************************)
(* Claims about the transcriber.                                           *)
(***************************************************************************)
InCall == {c \in Chunks : cpc[c] = "call"}

\* C9: two transcribe() calls with the same PCM that both returned, with no
\* request failing, returned the same text and cost exactly one request to
\* the STT service, however the two calls interleaved.
C9_CacheIdempotent ==
    \A c, d \in Chunks :
       (c # d /\ cpc[c] = "done" /\ cpc[d] = "done" /\ cpcm[c] = cpcm[d]
          /\ ~sttFailed)
       => /\ ctext[c] = ctext[d]
          /\ remoteCalls[cpcm[c]] = 1

\* C10: the requests in flight at the STT service never exceed
\* max_concurrent_requests, retries included.
C10_BoundedConcurrency ==
    /\ Cardinality(InCall) <= MaxConcurrent
    /\ semValue + Cardinality(InCall) = MaxConcurrent

\* C10 witness: every slot is taken, one of them by a retry, and another
\* chunk waits for the semaphore.
C10_Witness ==
    /\ Cardinality(InCall) = MaxConcurrent
    /\ \E c \in InCall : cattempt[c] > 0
    /\ \E c \in Chunks : cpc[c] = "semwait"

\* C11: a run of _handle_audio never raises and ends with exactly one
\* outcome: one TranscriptionEvent (not partial, with the session, speaker
\* and timestamp of the chunk) when the text holds a word; no event when the
\* text is empty or whitespace; one SystemStatus(error) and no
\* TranscriptionEvent when transcribe failed for good.
C11_HandleAudioOutcome ==
    /\ ~handlerRaised
    /\ \A c \in Chunks :
          /\ Len(transEvents[c]) + errEvents[c] <= 1
          /\ cpc[c] \notin {"done", "failed"} =>
                (transEvents[c] = <<>> /\ errEvents[c] = 0)
          /\ (cpc[c] = "done" /\ ctext[c] \in Texts) =>
                /\ errEvents[c] = 0
                /\ Len(transEvents[c]) = 1
                /\ transEvents[c][1].text = ctext[c]
                /\ transEvents[c][1].is_partial = FALSE
                /\ transEvents[c][1].session_id = ChunkEvent(c).session_id
                /\ transEvents[c][1].speaker_id = ChunkEvent(c).speaker_id
                /\ transEvents[c][1].timestamp = ChunkEvent(c).timestamp
          /\ (cpc[c] = "done" /\ ctext[c] \in BlankTexts) =>
                (transEvents[c] = <<>> /\ errEvents[c] = 0)
          /\ cpc[c] = "failed" =>
                (transEvents[c] = <<>> /\ errEvents[c] = 1)

\* C11 witness: the three outcomes side by side, the blank one whitespace.
C11_Witness ==
    /\ cpc[1] = "done" /\ ctext[1] \in Texts /\ Len(transEvents[1]) = 1
    /\ cpc[2] = "done" /\ ctext[2] = "   " /\ transEvents[2] = <<>>
    /\ cpc[3] = "failed" /\ errEvents[3] = 1

(***************************************************************************)
(* Claims about the audio segmenter.                                       *)
(***************************************************************************)
\* C12: for each speaker the audio of the chunks emitted, end to end, is the
\* sequence of frames fed in, less only a final tail shorter than
\* min_chunk_duration: what is neither emitted nor still buffered was dropped
\* at the end, and is shorter than min_chunk_duration.
C12_SegmenterConservation ==
    \A sp \in Speakers :
       /\ Concat(emitted[sp]) \o buf[sp] \o lost[sp] = fed[sp]
       /\ Dur(lost[sp]) < LsnCfg.min

\* C14: for each speaker the chunks are published in non-decreasing order of
\* their start timestamps, periodic flushes and the disconnect flush alike.
C14_ChunksInOrder ==
    \A sp \in Speakers :
       \A i, j \in 1..Len(emitted[sp]) :
          i < j => emitted[sp][i].ts <= emitted[sp][j].ts

\* C14 witness: a speaker's chunk from the periodic flush is followed, a
\* tick later, by a chunk from the disconnect flush.
C14_Witness ==
    \E sp \in Speakers :
       /\ dpc = "closed"
       /\ Len(emitted[sp]) = 2
       /\ emitted[sp][1].ts < emitted[sp][2].ts

\* C13: for every buffer state and every injected now, should_emit(now) is
\* true iff d >= min_chunk_duration and (d >= chunk_duration, or silence >=
\* silence_threshold, or d >= 5 s and silence >= short_silence_threshold),
\* with silence = now - last_voice_ts.
C13_ShouldEmitRule ==
    seOut # "none" =>
       (seOut = "emit" <=>
          /\ seDur >= seCfg.min
          /\ \/ seDur >= seCfg.chunk
             \/ seNow - seLast >= seCfg.silence
             \/ /\ seDur >= MediumDuration
                /\ seNow - seLast >= seCfg.short)

(***************************************************************************)
(* Claims about the resilience kit.                                        *)
(***************************************************************************)
InFlightCalls == {k \in Callers : kpc[k] = "run"}

\* C15: a call that finds the breaker open, the recovery timeout not yet
\* elapsed, is rejected without the wrapped operation being invoked, and
\* leaves the failure counter and the state as they were.
C15_OpenRejects ==
    /\ (cbLast.op \in {"rejected", "admitted"} /\ cbLast.read = "open") =>
          /\ cbLast.op = "rejected"
          /\ ~cbLast.ran
          /\ cbLast.to = "open"
          /\ cbLast.cntTo = cbLast.cntFrom
    /\ invoked = Cardinality({k \in Callers : kadm[k] # "none"})
    /\ \A k \in Callers : kadm[k] # "open"

\* C15 witness: a call was rejected by an open breaker while another call,
\* admitted earlier, was still running.
C15_Witness ==
    /\ cbLast.op = "rejected"
    /\ cbLast.read = "open"
    /\ cbState = "open"
    /\ InFlightCalls # {}

\* C16: the failure counter is the number of failures completed since the
\* last success; the breaker is closed while that number is below
\* failure_threshold and leaves closed for open exactly on the failure that
\* brings it to failure_threshold; a success sets the counter to zero.
C16_OpensAtThreshold ==
    /\ failure_count = streak
    /\ cbState = "closed" <=> streak < FailureThreshold
    /\ (cbLast.read = "closed" /\ cbLast.to = "open") =>
          (cbLast.op = "fail" /\ cbLast.cntTo = FailureThreshold)
    /\ cbLast.op = "ok" => cbLast.cntTo = 0

\* C16 witness: a failure, a success, then failure_threshold failures in a
\* row, the last of which opened the breaker.
C16_Witness ==
    /\ cbLast.op = "fail"
    /\ cbLast.read = "closed"
    /\ cbLast.to = "open"
    /\ Cardinality({k \in Callers : kpc[k] = "fail"}) = FailureThreshold + 1
    /\ \E k \in Callers : kpc[k] = "ok"

\* C17: while the breaker is half_open, at most half_open_max_calls of the
\* calls it admitted as half-open tests are in flight, whatever calls of
\* earlier states are still running.
C17_HalfOpenBounded ==
    cbState = "half_open" =>
       Cardinality({k \in InFlightCalls : kadm[k] = "half_open"})
          <= HalfOpenMax

\* C18: in half_open a call that succeeds closes the breaker and sets the
\* failure counter to zero, and a call that fails opens it again.
C18_HalfOpenOutcome ==
    /\ (cbLast.op = "ok" /\ cbLast.read = "half_open") =>
          (cbLast.to = "closed" /\ cbLast.cntTo = 0)
    /\ (cbLast.op = "fail" /\ cbLast.read = "half_open") =>
          cbLast.to = "open"

\* C18 witness: the half-open test call has failed and reopened the breaker.
C18_Witness ==
    /\ cbLast.op = "fail"
    /\ cbLast.read = "half_open"
    /\ cbState = "open"
    /\ \E k \in Callers : kpc[k] = "fail" /\ kadm[k] = "half_open"

(***************************************************************************)
(* Claims about retry_async and the ReconnectionManager.                   *)
(***************************************************************************)

\* The failed attempts that a back-off sleep follows: all but the last
\* allowed one.
FailedEarly ==
    {i \in 1..Len(outcomes) : outcomes[i] \in Errs /\ i < max_attempts}

\* 1 while on_retry is being awaited for the latest failure.
NotifyPending == IF rpc = "notify" THEN 1 ELSE 0

\* 1 once on_retry has raised, so that no sleep followed its call.
NotifyRaised == IF ret.kind = "callback_raised" THEN 1 ELSE 0

\* C19: retry_async awaits the operation one attempt after the other, each
\* attempt following only failed ones, at most max_attempts of them; it
\* returns exactly when an attempt succeeds, with that attempt's result; it
\* raises an attempt's error exactly when max_attempts attempts have failed,
\* and the error is the last attempt's; on_retry, if given, has been awaited
\* with (attempt index, that attempt's error) for every failed attempt but
\* the last allowed one, in order, and each back-off sleep started after
\* the callback of its attempt.
C19_RetryContract ==
    /\ Len(outcomes) <= max_attempts
    /\ \A i \in 1..(Len(outcomes) - 1) : outcomes[i] \in Errs
    /\ rattempt = (IF rpc = "call" THEN Len(outcomes) ELSE Len(outcomes) - 1)
    /\ ret.kind = "returned"
          <=> (outcomes # <<>> /\ outcomes[Len(outcomes)] \in Vals)
    /\ ret.kind = "returned" => ret.val = outcomes[Len(outcomes)]
    /\ ret.kind = "raised"
          <=> (Len(outcomes) = max_attempts
               /\ outcomes[max_attempts] \in Errs)
    /\ ret.kind = "raised" => ret.val = outcomes[max_attempts]
    /\ ret.kind # "none" <=> rpc = "done"
    /\ IF on_retry
       THEN /\ Len(notified) = Cardinality(FailedEarly) - NotifyPending
            /\ \A i \in 1..Len(notified) :
                   notified[i] = <<i - 1, outcomes[i]>>
            /\ Len(sleeps) = Len(notified) - NotifyRaised
       ELSE /\ notified = <<>>
            /\ Len(sleeps) = Cardinality(FailedEarly)
    /\ \A i \in 1..Len(sleeps) : sleeps[i] = Delay(i - 1)

\* Three attempts failed with on_retry given: two callbacks, two sleeps,
\* and the last error differs from the one before it.
C19_Witness ==
    /\ max_attempts = 3
    /\ on_retry
    /\ ret.kind = "raised"
    /\ Len(outcomes) = 3
    /\ outcomes[2] = "errA"
    /\ ret.val = "errB"
    /\ Len(notified) = 2
    /\ Len(sleeps) = 2

\* C20: after start(), however many stop() calls are made, one after the
\* other or overlapping, disconnect is invoked once in total.
C20_DisconnectOnce == disconnects <= 1

(***************************************************************************)
(* Claims about the intake of transcriptions.                              *)
(***************************************************************************)

ValidEvent(e) == ~e.partial /\ e.sid = ActiveSession

\* C21: every transcription in the pending buffer, in the snapshot of a
\* pass or already summarized came from an event that is not partial and
\* carries the active session; an event that is partial or of another
\* session changes neither the buffer nor the passes started or queued; and
\* no partial event is among the rows handed to storage.
C21_InvalidFiltered ==
    /\ \A t \in TransTasks : t <= arrived => ValidEvent(evOf[t])
    /\ \A t \in Range(pending) : ValidEvent(evOf[t])
    /\ \A t \in TransTasks : \A i \in Range(entries[t]) : ValidEvent(evOf[i])
    /\ ~ValidEvent(lastIn) => ~lastIn.touched
    /\ \A e \in stored : ~e.partial

\* C21 witness: a final transcription of another session was stored but
\* ignored by the summarizer, and a partial one arrived when one more valid
\* transcription would have filled the buffer.
C21_Witness ==
    /\ [partial |-> FALSE, sid |-> "sess2"] \in stored
    /\ lastIn.partial
    /\ ignored = 2
    /\ Len(pending) = MaxPending - 1
    /\ started = 0

(***************************************************************************)
(* Claims about the summaries published and about finalize_session.        *)
(***************************************************************************)

\* The coroutines awaiting the bus publish of a SummaryUpdateEvent.
Publishing == {t \in Tasks : pc[t] = "pub"}

\* C22: SummaryUpdate events are published one at a time, each one when its
\* pass completes and carrying the summary that pass assigned: no two
\* publishes of a SummaryUpdate overlap, and the events published so far are
\* as many as the summaries assigned, the latest event holding the current
\* one.
C22_SummaryUpdatesSerial ==
    /\ Cardinality(Publishing) <= 1
    /\ Len(published) = session_summary

\* finalize_session has assigned its results.
FinAssigned == pc[FinTask] \in {"pub", "done"}

FinalsPublished == Cardinality({i \in 1..Len(published) : published[i] = "final"})

\* What every finalize_session does besides parsing: the entries it took are
\* out of pending, one final update is published with the assignment, and
\* the session summary is returned.
FinalizeFrame ==
    /\ \A id \in Range(entries[FinTask]) : id \notin Range(pending)
    /\ FinalsPublished = (IF FinAssigned THEN 1 ELSE 0)
    /\ pc[FinTask] = "done" => finRet = sessText
    /\ pc[FinTask] # "done" => finRet = NotReturned

\* The text between the two markers and the text after the campaign marker,
\* without the white space around them.
BetweenMarkers(r) ==
    LET i == IndexOf(r, "SM")
        j == IndexOf(r, "CM")
    IN  StripWs(SubSeq(r, (IF i < j THEN i ELSE j) + 1,
                          (IF i < j THEN j ELSE i) - 1))

AfterCampaignMarker(r) == StripWs(SubSeq(r, IndexOf(r, "CM") + 1, Len(r)))

\* C23, as stated: finalize_session clears pending and, from the response of
\* its LLM call, with both markers present sets session_summary to the text
\* between them and campaign_summary to the text after the campaign marker,
\* and with a marker absent sets session_summary to the whole response and
\* leaves campaign_summary alone; either way it publishes one final
\* SummaryUpdate and returns the session summary.
C23_FinalizeByMarkers ==
    /\ FinalizeFrame
    /\ FinAssigned =>
          IF Contains(finResp, "SM") /\ Contains(finResp, "CM")
          THEN /\ sessText = BetweenMarkers(finResp)
               /\ campaign_summary = AfterCampaignMarker(finResp)
          ELSE /\ sessText = finResp
               /\ campaign_summary = OldCampaign

\* The words and white space of the response before its first campaign
\* marker, session markers left out.
LeftOfCampaign(r) ==
    LET j == IndexOf(r, "CM")
    IN  SelectSeq(SubSeq(r, 1, j - 1), LAMBDA x : x # "SM")

\* The response from its first campaign marker up to the next one, or to
\* the end.
RightOfCampaign(r) ==
    LET j == IndexOf(r, "CM")
        more == {k \in (j + 1)..Len(r) : r[k] = "CM"}
    IN  SubSeq(r, j + 1, IF more = {} THEN Len(r) ELSE Min(more) - 1)

\* C23, amended: with both markers present session_summary is the text
\* before the first campaign marker with every session marker removed and
\* the white space around it stripped, and campaign_summary is the stripped
\* text between the first campaign marker and the next one (or the end),
\* unless that text is empty, which leaves campaign_summary alone; with a
\* marker absent session_summary is the whole response and campaign_summary
\* is left alone; either way pending is cleared, one final SummaryUpdate is
\* published and the session summary is returned.
C23_FinalizeSplit ==
    /\ FinalizeFrame
    /\ FinAssigned =>
          IF Contains(finResp, "SM") /\ Contains(finResp, "CM")
          THEN /\ sessText = StripWs(LeftOfCampaign(finResp))
               /\ campaign_summary =
                     (IF StripWs(RightOfCampaign(finResp)) = <<>>
                      THEN OldCampaign
                      ELSE StripWs(RightOfCampaign(finResp)))
          ELSE /\ sessText = finResp
               /\ campaign_summary = OldCampaign

\* C23 witness: finalize_session returned on a response with a word before
\* the session marker and nothing after the campaign marker, having taken
\* a pending transcription into its prompt.
C23_Witness ==
    /\ pc[FinTask] = "done"
    /\ finResp = <<"a", "SM", "a", "CM">>
    /\ finRet = <<"a", "a">>
    /\ campaign_summary = OldCampaign
    /\ entries[FinTask] # <<>>
    /\ published[Len(published)] = "final"

(***************************************************************************)
(* Claims about start() and stop().                                        *)
(***************************************************************************)

\* C24: no stop() of the transcriber or of the summarizer raises, started
\* or not, and a stop() that follows another stop() of the same component,
\* with no start() and no work of the component in between, changes neither
\* the handlers registered on the bus nor the component's state.
C24_StopIdempotent ==
    /\ ~lcRaised
    /\ lastStop.repeat => ~lastStop.changed
    /\ \A c \in Comps :
          (\E k \in StopCalls : lcPc[c][k] # "new") /\ ~lcDirty[c] =>
             /\ "own" \notin Range(lcSubs[c])
             /\ c = "transcriber" => lcState[c] = {}

\* C24 witness: the transcriber was never started and stopped twice, and the
\* summarizer was started, buffered an entry and was stopped twice, the
\* latest stop() being a repeated one.
C24_Witness ==
    /\ ~lcStarted["transcriber"]
    /\ lcPc["transcriber"][2] = "done"
    /\ lcStarted["summarizer"]
    /\ lcState["summarizer"] = {"i1"}
    /\ lcPc["summarizer"][2] = "done"
    /\ lastStop.repeat
    /\ lcSubs = [c \in Comps |-> <<"peer">>]

(***************************************************************************)
(* Further claims about the incremental passes.                            *)
(***************************************************************************)

\* The incremental passes between their snapshot and the end of their LLM
\* call.
Summarizing ==
    {t \in TransTasks : pc[t] \in {"fetch", "mark", "llm", "backoff", "save"}}

\* C25: every incremental pass inside the critical section holds a snapshot
\* of at least one pending entry, so no LLM request carries an empty
\* transcription block.
C25_SnapshotNonEmpty == \A t \in Summarizing : entries[t] # <<>>

(***************************************************************************)
(* Further claims about the circuit breaker.                               *)
(***************************************************************************)

\* C26: an open breaker leaves open only by becoming half_open (reset() is
\* not called here): no step, the completion of a call admitted before the
\* breaker opened included, takes it from open to closed.
C26_OpenLeavesByHalfOpen ==
    [][cbState = "open" => cbState' \in {"open", "half_open"}]_vars

(***************************************************************************)
(* Further claims about the listener.                                      *)
(***************************************************************************)

\* C27: the step in which a speaker's chunk is emitted hands over the whole
\* buffer with its start time and leaves the speaker's buffer empty, its
\* first-sample time cleared and its last-voice time cleared.
C27_FlushResets ==
    [][\A sp \in Speakers :
          Len(emitted'[sp]) > Len(emitted[sp]) =>
             /\ emitted'[sp][Len(emitted'[sp])].audio = buf[sp]
             /\ buf'[sp] = <<>>
             /\ startT'[sp] = 0
             /\ lastV'[sp] = 0]_vars

\* C28: once disconnect() has returned, every per-speaker buffer is gone and
\* whatever audio was discarded rather than emitted was, for each speaker,
\* shorter than min_chunk_duration: each remaining buffer of at least
\* min_chunk_duration went out as a chunk, none was dropped.
C28_DisconnectFlushes ==
    dpc = "closed" =>
       /\ userBufs = <<>>
       /\ \A sp \in Speakers :
             /\ buf[sp] = <<>>
             /\ Dur(lost[sp]) < LsnCfg.min

\* The channel samples of the argument and the samples of the result, read
\* back from their bytes.
MonoIn == UnpackAll(pcm_stereo, Len(pcm_stereo) \div DISCORD_SAMPLE_WIDTH)

MonoOut == UnpackAll(mono_bytes, Len(mono_bytes) \div DISCORD_SAMPLE_WIDTH)

\* C29 as stated: the result has one sample per stereo frame, and each is
\* (L + R) / 2 rounded toward zero: for a negative sum, the least integer
\* not below the half.
C29_MonoTowardZero ==
    monoPc = "done" =>
       /\ Len(mono_bytes) * 2 = Len(pcm_stereo)
       /\ \A k \in 1..Len(MonoOut) :
             LET sum == MonoIn[2 * k - 1] + MonoIn[2 * k]
                 m   == MonoOut[k]
             IN  IF sum >= 0
                 THEN 2 * m <= sum /\ sum <= 2 * m + 1
                 ELSE 2 * m - 1 <= sum /\ sum <= 2 * m

\* C29 amended: the result has one sample per stereo frame, and each is
\* (L + R) / 2 rounded down (toward minus infinity), whatever the sign: the
\* greatest integer not above the half.
C29_MonoFloor ==
    monoPc = "done" =>
       /\ Len(mono_bytes) * 2 = Len(pcm_stereo)
       /\ \A k \in 1..Len(MonoOut) :
             LET sum == MonoIn[2 * k - 1] + MonoIn[2 * k]
                 m   == MonoOut[k]
             IN  2 * m <= sum /\ sum <= 2 * m + 1

\* C29 witness: the frames (-1, 0) and (-32768, 32767), both of sum -1, came
\* out as the samples -1 and -1.
C29_Witness ==
    /\ monoPc = "done"
    /\ pcm_stereo = PackAll(<<-1, 0, -32768, 32767>>)
    /\ mono_bytes = <<255, 255, 255, 255>>

(***************************************************************************)
(* Progress of the incremental passes.                                     *)
(***************************************************************************)
\* The update trigger is true of the summarizer's state.
Due == ShouldUpdate(pending, now, last_update_time)

\* C30 as stated: whenever pending is non-empty and a threshold is met, a
\* pass is started later on.
C30_DueStartsPass ==
    \A n \in 0..MaxTrans : (Due /\ started = n) ~> (started > n)

\* C30 amended: the trigger is looked at when a transcription arrives. An
\* arrival that finds it true starts a pass at once or queues for the lock;
\* a handler queued for the lock does not stay queued for ever, and leaves
\* the queue only by starting its pass.
C30_TriggeredPassStarts ==
    /\ [][\A t \in TransTasks :
            /\ pc[t] = "new" /\ pc'[t] # "new"
               /\ ShouldUpdate(Append(pending, t), now, last_update_time)
               => \/ pc'[t] = "wait"
                  \/ started' = started + 1
            /\ pc[t] = "wait" /\ pc'[t] # "wait"
               => started' = started + 1]_vars
    /\ \A t \in TransTasks : []<>(pc[t] # "wait")

\* C30 witness: the second transcription found the trigger true while the
\* first one's pass held the lock, waited, and has started its own pass
\* right after that pass ended.
C30_Witness ==
    /\ pc[1] = "done" /\ pc[2] = "llm" /\ pc[FinTask] = "new"
    /\ entries[2] = <<2>>
    /\ session_summary = 1
    /\ last_update_time = now

(***************************************************************************)
(* Failed passes.                                                          *)
(***************************************************************************)
\* The step in which the pass of task t fails: its exception is caught and
\* the publish of SystemStatus(error) begins.
PassFails(t) ==
    /\ errors' = errors + 1
    /\ pc[t] \in {"fetch", "mark", "llm", "save"}
    /\ pc'[t] \in {"errpub", "done"}

\* What a failing pass leaves alone: the summary, the time of the last
\* update and the SummaryUpdates published.
FailureFrame ==
    UNCHANGED <<session_summary, last_update_time, published>>

\* C31 as stated: a pass that fails changes neither session_summary nor
\* last_update_ts, publishes no SummaryUpdate and one SystemStatus error,
\* and has by then made max_retries LLM requests, all of them failed.
C31_FailedPassAllRetries ==
    [][\A t \in TransTasks :
          PassFails(t) =>
             /\ FailureFrame
             /\ pc[t] = "llm"
             /\ attempt[t] + 1 = SumMaxRetries]_vars

\* C31 amended: a pass that fails changes neither session_summary nor
\* last_update_ts and publishes no SummaryUpdate and one SystemStatus error;
\* when it fails on the LLM request it has made max_retries requests, and
\* when it fails on a storage call it has made at most that many.
C31_FailedPass ==
    [][\A t \in TransTasks :
          PassFails(t) =>
             /\ FailureFrame
             /\ pc[t] = "llm" => attempt[t] + 1 = SumMaxRetries
             /\ pc[t] = "save" => attempt[t] + 1 <= SumMaxRetries
             /\ pc[t] \in {"fetch", "mark"} => attempt[t] = 0]_vars

\* C31 witness: a pass has failed after its last LLM request, with no
\* question left to save (so not on a storage call), and nothing was
\* published for it.
C31_Witness ==
    \E t \in TransTasks :
       /\ pc[t] = "errpub"
       /\ attempt[t] + 1 = SumMaxRetries
       /\ \A q \in Questions : qstatus[q] # "none"
       /\ errors = 1
       /\ Len(published) = session_summary

(***************************************************************************)
(* Retries of the STT request.                                             *)
(***************************************************************************)
\* The requests sent so far for chunk c: one per failed attempt, and the one
\* in flight or the one that ended the call (for a chunk answered from the
\* cache this counts one request too many).
RequestsOf(c) ==
    IF cpc[c] \in {"call", "failed", "done"}
    THEN cattempt[c] + 1
    ELSE cattempt[c]

\* C32: a chunk costs at most max_retries + 1 requests; nothing more is sent
\* for it once a request succeeded; its failure is raised after exactly
\* max_retries + 1 requests and writes nothing to the cache; and a chunk is
\* answered from the cache only when its PCM has an entry, so a PCM whose
\* only transcription failed is sent to the service again.
C32_SttRetries ==
    [][\A c \in Chunks :
          /\ RequestsOf(c)' <= SttMaxRetries + 1
          /\ cpc[c] = "done" => cpc'[c] = "done" /\ cattempt'[c] = cattempt[c]
          /\ cpc[c] # "failed" /\ cpc'[c] = "failed"
             => /\ cpc[c] = "call"
                /\ RequestsOf(c) = SttMaxRetries + 1
                /\ cache' = cache
          /\ cpc[c] = "new" /\ cpc'[c] = "done"
             => cache[AudioHash(cpcm'[c])] # "none"
          /\ cpc[c] = "new" /\ cache[AudioHash(cpcm'[c])] = "none"
             => cpc'[c] \in {"new", "call", "semwait"}]_vars

\* C32 witness: the first chunk failed after max_retries + 1 requests, its
\* PCM has no cache entry, and the second chunk, with the same PCM, has a
\* request of its own in flight.
C32_Witness ==
    /\ cpc[1] = "failed" /\ RequestsOf(1) = SttMaxRetries + 1
    /\ cpcm[2] = cpcm[1] /\ cpc[2] = "call"
    /\ cache[AudioHash(cpcm[1])] = "none"
    /\ remoteCalls[cpcm[1]] = SttMaxRetries + 2

(***************************************************************************)
(* The reconnect loop.                                                     *)
(***************************************************************************)
\* Some stop() has got past its await of the monitor task.
StopPastJoin == \E s \in Stoppers : spc[s] \in {"disc", "done"}

\* C33: a run of the reconnect loop calls connect for the attempts 0, 1, ...
\* below max_attempts, one after the other; the attempt after which
\* is_connected() answers true is the last of its run; and from the moment a
\* stop() is past its await of the monitor task, so also after it returned,
\* connect is not called again.
C33_ReconnectLoop ==
    [][/\ connects' # connects /\ mpc' = "connect"
          => /\ connects' = connects + 1
             /\ mattempt' < RcMaxAttempts
             /\ \/ mpc = "sleep" /\ mattempt' = 0
                \/ mpc \in {"connect", "backoff"} /\ mattempt' = mattempt + 1
       /\ mpc = "connect" /\ isConnected'
          => connects' = connects /\ mpc' \in {"sleep", "done"}
       /\ StopPastJoin => connects' = connects /\ mpc' # "connect"]_vars

\* C33 witness: the connection dropped, the loop made its first attempt,
\* stop() cancelled it there or in the back-off that followed, and stop()
\* has returned.
C33_Witness ==
    /\ drops = 1 /\ connects = 2 /\ mattempt = 0
    /\ mpc = "cancelled"
    /\ \E s \in Stoppers : spc[s] = "done"

(***************************************************************************)
(* NPCs found at the end of a session.                                     *)
(***************************************************************************)
\* The NPCs to persist: named, and not yet in the campaign's table.
NewNpcs == {n \in extraction : n # "" /\ n \notin npc_table}

\* C34: once finalize_session has published the final update, save_npc has
\* been called once for each new NPC of the extraction answer, with the
\* session as first_seen_session, and for no other.
C34_NpcsPersisted ==
    (hasDb /\ pc[FinTask] = "done") =>
       /\ {save_npc_calls[i].name : i \in 1..Len(save_npc_calls)} = NewNpcs
       /\ Len(save_npc_calls) = Cardinality(NewNpcs)
       /\ \A i \in 1..Len(save_npc_calls) :
             save_npc_calls[i].first_seen_session = ActiveSession

(***************************************************************************)
(* The end of a session.                                                   *)
(***************************************************************************)
\* C35: in the order of publication no incremental SummaryUpdate of the
\* session comes after its final one.
C35_FinalIsLast ==
    \A i, j \in 1..Len(published) :
       (i < j /\ published[i] = "final") => published[j] # "incremental"

\* C36: when the LLM call of finalize_session has failed for good, the
\* transcriptions it had taken from pending are in pending again, so each
\* of them is in pending or was sent in a prompt that succeeded.
C36_FinalizeKeepsPending ==
    pc[FinTask] = "failed" =>
       \A id \in Range(entries[FinTask]) :
          id \in Range(pending) \/ id \in consumed

(***************************************************************************)
(* The handlers of one publish.                                            *)
(***************************************************************************)
\* A handler of the publish in flight is invoked at this step.
Invoked(i) == i \in DOMAIN hs /\ hs[i] = "ready" /\ hs'[i] # "ready"

\* C40: the handlers a publish invokes are those registered for the type of
\* the event when publish was called: the list is fixed at the call and no
\* subscribe or unsubscribe made while the handlers run changes it, every
\* invocation is of a handler of that list, once, and publish returns only
\* when each handler of the list has been invoked.
C40_SnapshotDelivery ==
    [][/\ publishes' # publishes =>
             /\ snapshot' = handlers[pubType']
             /\ DOMAIN hs' = DOMAIN snapshot'
             /\ \A i \in DOMAIN hs' : hs'[i] = "ready"
       /\ publishes' = publishes =>
             /\ snapshot' = snapshot
             /\ pubType' = pubType
             /\ DOMAIN hs' = DOMAIN hs
             /\ \A i \in DOMAIN hs : hs[i] # "ready" => hs'[i] # "ready"
             /\ \A h \in Handlers :
                   delivered'[h] =
                      delivered[h] + Cardinality({i \in DOMAIN snapshot :
                                                   snapshot[i] = h /\ Invoked(i)})
       /\ (pubState = "gather" /\ pubState' = "idle") =>
             \A i \in DOMAIN snapshot : hs[i] \in {"ok", "exc"}
      ]_vars

\* A publish in flight has invoked a handler that is unsubscribed by now.
C40_Witness ==
    /\ pubState = "gather"
    /\ publishes = 1
    /\ snapshot = <<1>>
    /\ hs[1] = "ok"
    /\ delivered[1] = 1
    /\ handlers[pubType] = <<>>

(***************************************************************************)
(* The transcriber after stop().                                           *)
(***************************************************************************)
\* C37: once stop() has returned the cache is empty and stays so, and no
\* TranscriptionEvent is published any more, whatever transcribe() calls
\* were suspended when stop() was called.
C37_StopIsFinal ==
    [][tstop' = "stopped" =>
          /\ \A k \in Keys : cache'[k] = "none"
          /\ tstop = "stopped" => transEvents' = transEvents
      ]_vars

(***************************************************************************)
(* Application.on_session_end.                                             *)
(***************************************************************************)
\* C38: once on_session_end has returned, the session is completed and the
\* summarizer's handler is off the bus, whether finalize_session returned or
\* raised.
C38_EndDetaches ==
    session_status = "completed" => ~subscribed

(***************************************************************************)
(* Synchronous delivery along the pipeline.                                *)
(***************************************************************************)
\* transcribe gave the chunk a text that is not blank.
Produced(c) == pipe[c].text # "none" /\ Strip(pipe[c].text) # ""

\* C39: when publish(AudioChunkEvent) has returned, _handle_audio has ended,
\* and if a TranscriptionEvent was produced for the chunk its publish has
\* returned, each handler registered for it at that publish has run to its
\* end, and the summarizer pass it triggered, if any, is over.
C39_SynchronousPipeline ==
    \A c \in Pipes :
       pipe[c].outer = "returned" =>
          /\ pipe[c].ha = "done"
          /\ Produced(c) =>
                /\ pipe[c].inner = "returned"
                /\ DOMAIN pipe[c].subs = DOMAIN pipe[c].snap
                /\ \A i \in DOMAIN pipe[c].subs :
                      pipe[c].subs[i] \in {"ok", "exc"}
          /\ pipe[c].pass # "running"

\* publish has returned for a chunk whose TranscriptionEvent went to both
\* handlers and made the summarizer wait for the lock and run a pass.
C39_Witness ==
    \E c \in Pipes :
       /\ pipe[c].outer = "returned"
       /\ Produced(c)
       /\ Len(pipe[c].snap) = 2
       /\ pipe[c].pass = "completed"
       /\ \E d \in Pipes : d # c /\ pipe[d].pass = "running"

=============================================================================
